---- MODULE Spec2Model ----
(***************************************************************************)
(* Opening-range-breakout scanner of engine.py (analyze_orb) as a state    *)
(* machine.  One behaviour is one call of analyze_orb: the fetched 5-min   *)
(* frame, the VIX fetch and the two parameters are the inputs (Init), the  *)
(* prelude, every iteration of the scan loop and the summary are steps.    *)
(*                                                                         *)
(* Units.  Candle times are minutes since midnight (09:15 = 555).  Candle  *)
(* prices are whole rupees.  Levels derived with the factors 0.2, 0.5 and  *)
(* 1.5 are kept in tenths of a rupee (x10), so that they stay integers:    *)
(* d > r*0.2 is 10*d > 2*r, and entry = stop is 10*entry = stop10.         *)
(***************************************************************************)
EXTENDS Integers, Sequences, FiniteSets, TLC

VARIABLES
    hist,                \* the 5-minute frame (sequence of candles)
    vix_fetch,           \* outcome of the ^INDIAVIX fetch
    max_trades_per_day,  \* parameter of analyze_orb
    cooldown_candles,    \* parameter of analyze_orb
    pc,                  \* "start", "scan", "summary", "done"
    i,                   \* loop index of the scan (0-based, as in the code)
    trades,              \* list of trade records built by the scan
    cooldown_until,      \* last index still in cooldown
    orb,                 \* [high, low, range] of the opening range
    atr_data,            \* result of atr(hist, 14) or its fallback
    vix_data,            \* result of get_india_vix()
    evaluated,           \* history: indices whose candle the loop body read
    result,              \* the dictionary analyze_orb returns
    prices,              \* argument of calculate_rsi
    rsi_period,          \* argument `period` of calculate_rsi
    rsi,                 \* what calculate_rsi returned (None before the call)
    program,             \* the script that runs: "engine_nse", "engine_quickfix"
    upstream,            \* what every fetch of the run answers
    step,                \* position in the script's main
    data,                \* the dictionary `result` main builds
    data_json,           \* contents of data.json (None while not written)
    exit_code,           \* argument of sys.exit (None while running)
    feeds,               \* engine.py main: what the fetches answer, per run
    run,                 \* engine.py main: the run under way (1 or 2)
    main_step,           \* engine.py main: position in main
    instrument,          \* engine.py main: the instrument analyze_orb works on
    live,                \* engine.py main: results of analyze_orb so far
    backtests,           \* engine.py main: nifty_bt and banknifty_bt
    outputs,             \* orb_analysis_multi_trade.json as each run wrote it
    daily,               \* backtest: what the history fetches answer
    bt_max_trades_per_day, \* backtest: parameter max_trades_per_day
    bt_cooldown_candles, \* backtest: parameter cooldown_candles
    bt_pc,               \* backtest: "start", "day", "scan", "break", "done"
    day_idx,             \* backtest: index of the day under way (0-based)
    bt_i,                \* backtest: loop index of the day's scan (0-based)
    day_trades,          \* backtest: trades recorded on the day under way
    bt_cooldown_until,   \* backtest: last index still in cooldown
    all_trades,          \* backtest: the trade records of all days
    triggers,            \* history: <<day_idx, i>> of every recorded trade
    bt_result            \* the dictionary backtest_orb_premium_based returns

orb_vars == <<hist, vix_fetch, max_trades_per_day, cooldown_candles, pc, i, trades,
              cooldown_until, orb, atr_data, vix_data, evaluated, result>>
rsi_vars == <<prices, rsi_period, rsi>>

live_vars == <<program, upstream, step, data, data_json, exit_code>>

main_vars == <<feeds, run, main_step, instrument, live, backtests, outputs>>

bt_vars == <<daily, bt_max_trades_per_day, bt_cooldown_candles, bt_pc, day_idx, bt_i,
             day_trades, bt_cooldown_until, all_trades, triggers, bt_result>>

vars == <<orb_vars, rsi_vars, live_vars, main_vars, bt_vars>>

\* what a run of analyze_orb leaves alone
not_orb_vars == <<rsi_vars, live_vars, main_vars, bt_vars>>
\* what a call of calculate_rsi leaves alone
not_rsi_vars == <<orb_vars, live_vars, main_vars, bt_vars>>
\* what a run of engine_nse.py or engine_quickfix.py leaves alone
not_live_vars == <<orb_vars, rsi_vars, main_vars, bt_vars>>
\* what a call of backtest_orb_premium_based leaves alone
not_bt_vars == <<orb_vars, rsi_vars, live_vars, main_vars>>

(***************************************************************************)
(* Program constants                                                       *)
(***************************************************************************)
MarketOpen == 555        \* "09:15"
MarketClose == 930       \* "15:30"
OpeningEnd == 585        \* "09:45"
MinSessionCandles == 10
MinOpeningCandles == 7
ScanStart == 6
AtrPeriod == 14
VixCeiling == 20
LateHour == 14
DefaultCap == 10         \* main: max_trades_per_day=10
DefaultCooldown == 2     \* main: cooldown_candles=2

(***************************************************************************)
(* Bounds of the model                                                     *)
(***************************************************************************)
MaxLen == 15             \* candles in a full session
MaxCooldown == 2         \* cooldown_candles ranges over 0..MaxCooldown
MaxCap == 2              \* max_trades_per_day ranges over 1..MaxCap

(***************************************************************************)
(* Helpers                                                                 *)
(***************************************************************************)
Max2(a, b) == IF a >= b THEN a ELSE b
Abs(x) == IF x >= 0 THEN x ELSE -x
SetMax(S) == CHOOSE x \in S : \A y \in S : y <= x
SetMin(S) == CHOOSE x \in S : \A y \in S : x <= y
None == <<>>
Some(x) == <<x>>

\* hist.iloc[k] with the code's 0-based index
At(df, k) == df[k + 1]

\* df.between_time(lo, hi): both ends inclusive
between_time(df, lo, hi) == SelectSeq(df, LAMBDA c : lo <= c.t /\ c.t <= hi)

\* candle_time.hour
HourOf(t) == t \div 60

\* candle_time.strftime("%H:%M:%S")
strftime(t) == <<t \div 60, t % 60, 0>>

(***************************************************************************)
(* Python floats.  The quotients, products, sums and differences of the    *)
(* code are IEEE 754 binary64 operations: each gives the representable     *)
(* number nearest the exact result, a tie going to the even mantissa.      *)
(* A natural number is a sequence of limbs below Limb, lowest first,       *)
(* without leading zeros.  A float that is not negative is [m, e] and      *)
(* stands for m * 2^e, with m of exactly Mantissa bits, or m = <<>> for    *)
(* zero.                                                                   *)
(***************************************************************************)
Mantissa == 53
LimbBits == 14

Pow2(k) == <<1, 2, 4, 8, 16, 32, 64, 128, 256, 512, 1024, 2048, 4096, 8192, 16384>>[k + 1]
Limb == Pow2(LimbBits)

\* An operation works on the values of its operands: CHOOSE v \in {e : a
\* \in {x}} : TRUE is e for a the value of x.
RECURSIVE BigOf(_)
BigOf(x) ==
    CHOOSE v \in {IF n = 0 THEN <<>> ELSE <<n % Limb>> \o BigOf(n \div Limb) :
                  n \in {x}} : TRUE

RECURSIVE BigValue(_)
BigValue(x) ==
    CHOOSE v \in {IF b = <<>> THEN 0 ELSE b[1] + Limb * BigValue(Tail(b)) :
                  b \in {x}} : TRUE

BigTrim(b) ==
    LET used == {k \in 1..Len(b) : b[k] # 0}
    IN IF used = {} THEN <<>> ELSE SubSeq(b, 1, CHOOSE k \in used : \A j \in used : j <= k)

BigLimb(b, k) == IF k >= 1 /\ k <= Len(b) THEN b[k] ELSE 0

\* number of bits of b
BigLen(b) ==
    IF b = <<>> THEN 0
    ELSE LimbBits * (Len(b) - 1)
         + (CHOOSE k \in 1..LimbBits : Pow2(k - 1) <= b[Len(b)] /\ b[Len(b)] < Pow2(k))

BigLess(x, y) ==
    CHOOSE v \in {IF Len(a) # Len(b) THEN Len(a) < Len(b)
                  ELSE \E k \in 1..Len(a) :
                          /\ a[k] < b[k]
                          /\ \A j \in (k + 1)..Len(a) : a[j] = b[j] :
                  a \in {x}, b \in {y}} : TRUE

\* a + b; a carry enters limb k when a lower limb overflows and every limb
\* between is full
BigPlus(x, y) ==
    CHOOSE v \in {LET n == IF Len(a) > Len(b) THEN Len(a) ELSE Len(b)
                      s(k) == BigLimb(a, k) + BigLimb(b, k)
                      carry(k) == IF \E j \in 1..(k - 1) :
                                         /\ s(j) >= Limb
                                         /\ \A z \in (j + 1)..(k - 1) : s(z) = Limb - 1
                                  THEN 1 ELSE 0
                  IN BigTrim([k \in 1..(n + 1) |-> (s(k) + carry(k)) % Limb]) :
                  a \in {x}, b \in {y}} : TRUE

\* a - b for a >= b
BigMinus(x, y) ==
    CHOOSE v \in {LET borrow(k) == IF \E j \in 1..(k - 1) :
                                          /\ a[j] < BigLimb(b, j)
                                          /\ \A z \in (j + 1)..(k - 1) : a[z] = BigLimb(b, z)
                                   THEN 1 ELSE 0
                  IN BigTrim([k \in 1..Len(a) |->
                                 (Limb + a[k] - BigLimb(b, k) - borrow(k)) % Limb]) :
                  a \in {x}, b \in {y}} : TRUE

\* a * f for 0 <= f <= Limb
BigScale(x, y) ==
    CHOOSE v \in {BigPlus([k \in 1..Len(a) |-> (a[k] * f) % Limb],
                          [k \in 1..(Len(a) + 1) |->
                              IF k = 1 THEN 0 ELSE (a[k - 1] * f) \div Limb]) :
                  a \in {x}, f \in {y}} : TRUE

\* a * 2^k
BigShl(x, y) ==
    CHOOSE v \in {IF a = <<>> THEN <<>>
                  ELSE [z \in 1..(k \div LimbBits) |-> 0]
                       \o BigScale(a, Pow2(k % LimbBits)) :
                  a \in {x}, k \in {y}} : TRUE

\* a \div 2^k
BigShr(x, y) ==
    CHOOSE v \in {BigTrim([z \in 1..(Len(a) - q) |->
                             a[z + q] \div Pow2(j)
                             + (BigLimb(a, z + q + 1) % Pow2(j)) * Pow2(LimbBits - j)]) :
                  a \in {x}, q \in {y \div LimbBits}, j \in {y % LimbBits}} : TRUE

\* a % 2^k
BigLow(x, y) ==
    CHOOSE v \in {BigTrim([z \in 1..(IF Len(a) < q + 1 THEN Len(a) ELSE q + 1) |->
                             IF z <= q THEN a[z] ELSE a[z] % Pow2(j)]) :
                  a \in {x}, q \in {y \div LimbBits}, j \in {y % LimbBits}} : TRUE

\* a * b, from the product `rest` of a and the limbs of b above the lowest
BigTimesLimb(a, f, rest) ==
    IF rest = <<>> THEN BigScale(a, f) ELSE BigPlus(BigScale(a, f), <<0>> \o rest)

RECURSIVE BigTimes(_, _)
BigTimes(x, y) ==
    CHOOSE v \in {IF a = <<>> \/ b = <<>> THEN <<>>
                  ELSE CHOOSE w \in {BigTimesLimb(a, b[1], rest) :
                                     rest \in {BigTimes(a, Tail(b))}} : TRUE :
                  a \in {x}, b \in {y}} : TRUE

\* the digit of long division: the largest g with g * d <= r, which is
\* `hi` or one or two below it
BigDigit(r, d, hi) ==
    IF ~BigLess(r, BigScale(d, hi)) THEN hi
    ELSE IF ~BigLess(r, BigScale(d, hi - 1)) THEN hi - 1
    ELSE hi - 2

\* the digit estimated from the top limbs of r and d.  The top limb of d is
\* at least Limb / 2, so the estimate is at most 2 too large.
BigEstimate(r, d) ==
    LET est == (BigLimb(r, Len(d) + 1) * Limb + BigLimb(r, Len(d))) \div d[Len(d)]
    IN IF est < Limb THEN est ELSE Limb - 1

\* quotient q extended by the digit g, which is taken from the remainder r
BigDivTake(q, r, d, g) == [q |-> BigTrim(<<g>> \o q), r |-> BigMinus(r, BigScale(d, g))]

BigDivDigit(q, x, d) ==
    CHOOSE v \in {CHOOSE w \in {BigDivTake(q, r, d, g) :
                                g \in {BigDigit(r, d, BigEstimate(r, d))}} : TRUE :
                  r \in {x}} : TRUE

\* one step of long division by d: h holds the quotient and the remainder
\* of the limbs above, and `limb` is the next limb of the dividend
BigDivStep(x, limb, d) ==
    CHOOSE v \in {IF h.r = <<>> /\ limb = 0 THEN [q |-> BigTrim(<<0>> \o h.q), r |-> <<>>]
                  ELSE BigDivDigit(h.q, BigTrim(<<limb>> \o h.r), d) :
                  h \in {x}} : TRUE

\* quotient q and remainder r of n by d, the top limb of d being at least
\* Limb / 2; the limbs of n that cannot yet hold d start as the remainder
BigDivNormal(x, y) ==
    CHOOSE v \in {LET digits == Len(n) - (Len(d) - 1)
                      RECURSIVE From(_)
                      From(k) ==
                          IF k > digits
                          THEN [q |-> <<>>, r |-> SubSeq(n, digits + 1, Len(n))]
                          ELSE BigDivStep(From(k + 1), n[k], d)
                  IN IF digits <= 0 THEN [q |-> <<>>, r |-> n] ELSE From(1) :
                  n \in {x}, d \in {y}} : TRUE

\* the shift that brings the top limb of d to Limb / 2 or more
BigNormalShift(d) == LimbBits - (BigLen(d) - LimbBits * (Len(d) - 1))

\* quotient q of n by d, d > 0; the remainder r is scaled by a power of 2
BigDivMod(x, y) ==
    CHOOSE v \in {BigDivNormal(BigShl(n, BigNormalShift(d)), BigShl(d, BigNormalShift(d))) :
                  n \in {x}, d \in {y}} : TRUE

\* the part cut off, `low` with a fraction behind it that is 0 if `exact`,
\* is above `half`, or is `half` and the part kept is odd
BigRoundsUp(x, y, exact, odd) ==
    CHOOSE v \in {BigLess(half, low) \/ (low = half /\ (~exact \/ odd)) :
                  low \in {x}, half \in {y}} : TRUE

FZero == [m |-> <<>>, e |-> 0]

\* what stands for the exception raised by a division by zero
ZeroDivisionError == "ZeroDivisionError"

\* the float m * 2^e for m of Mantissa or Mantissa + 1 bits, the lowest
\* bit being 0 in the latter case
FNormal(x, e) ==
    CHOOSE v \in {IF BigLen(m) > Mantissa THEN [m |-> BigShr(m, 1), e |-> e + 1]
                  ELSE [m |-> m, e |-> e] :
                  m \in {x}} : TRUE

\* the float nearest (q + f) * 2^x, rounded at bit t of q
FRoundedAt(q, exact, x, t) ==
    CHOOSE v \in {FNormal(IF BigRoundsUp(BigLow(q, t), BigShl(<<1>>, t - 1), exact,
                                         BigLimb(kept, 1) % 2 = 1)
                          THEN BigPlus(kept, <<1>>)
                          ELSE kept,
                          x + t) :
                  kept \in {BigShr(q, t)}} : TRUE

\* the float nearest (q + f) * 2^x for q of more than Mantissa bits, where
\* f is 0 if `exact` and strictly between 0 and 1 otherwise
FRounded(y, exact, x) ==
    CHOOSE v \in {FRoundedAt(q, exact, x, BigLen(q) - Mantissa) : q \in {y}} : TRUE

\* the float nearest n * 2^x
FExact(y, x) ==
    CHOOSE v \in {IF n = <<>> THEN FZero
                  ELSE IF BigLen(n) <= Mantissa
                  THEN [m |-> BigShl(n, Mantissa - BigLen(n)),
                        e |-> x - (Mantissa - BigLen(n))]
                  ELSE FRounded(n, TRUE, x) :
                  n \in {y}} : TRUE

\* float(n) for a natural number n
FInt(n) == FExact(BigOf(n), 0)

\* the mantissas of two floats over their smaller exponent
FAligned(x, y) ==
    CHOOSE v \in {LET lo == IF a.m = <<>> THEN b.e ELSE IF b.m = <<>> THEN a.e
                            ELSE IF a.e < b.e THEN a.e ELSE b.e
                  IN [a |-> BigShl(a.m, a.e - lo), b |-> BigShl(b.m, b.e - lo), e |-> lo] :
                  a \in {x}, b \in {y}} : TRUE

\* a < b
FLess(x, y) == CHOOSE v \in {BigLess(al.a, al.b) : al \in {FAligned(x, y)}} : TRUE

\* a / b: the quotient of the mantissas is taken to Mantissa + 2 or
\* Mantissa + 3 bits and then rounded
FQuotient(x, y, e) ==
    CHOOSE v \in {FRounded(dm.q, dm.r = <<>>, e) : dm \in {BigDivMod(x, y)}} : TRUE

FDiv(x, y) ==
    CHOOSE v \in {IF b.m = <<>> THEN ZeroDivisionError
                  ELSE IF a.m = <<>> THEN FZero
                  ELSE FQuotient(BigShl(a.m, Mantissa + 2), b.m, a.e - b.e - (Mantissa + 2)) :
                  a \in {x}, b \in {y}} : TRUE

\* a * b
FMul(x, y) ==
    CHOOSE v \in {IF a.m = <<>> \/ b.m = <<>> THEN FZero
                  ELSE FExact(BigTimes(a.m, b.m), a.e + b.e) :
                  a \in {x}, b \in {y}} : TRUE

\* a + b
FAdd(x, y) == CHOOSE v \in {FExact(BigPlus(al.a, al.b), al.e) : al \in {FAligned(x, y)}} : TRUE

\* a - b for a >= b
FSub(x, y) == CHOOSE v \in {FExact(BigMinus(al.a, al.b), al.e) : al \in {FAligned(x, y)}} : TRUE

\* the integer nearest n * 2^e, a tie going to the even one
BigRounded(x, e) ==
    CHOOSE v \in {IF e >= 0 THEN BigValue(BigShl(n, e))
                  ELSE BigValue(BigShr(n, -e))
                       + (IF BigRoundsUp(BigLow(n, -e), BigShl(<<1>>, -e - 1), TRUE,
                                         BigLimb(BigShr(n, -e), 1) % 2 = 1)
                          THEN 1 ELSE 0) :
                  n \in {x}} : TRUE

\* round(x, 2) in hundredths: the integer nearest the exact value of
\* 100 * x, a tie going to the even one
FRound2(y) ==
    CHOOSE v \in {IF x.m = <<>> THEN 0 ELSE BigRounded(BigScale(x.m, 100), x.e) :
                  x \in {y}} : TRUE

\* num / den lies halfway between two hundredths
HalfwayHundredths(num, den) == 2 * ((100 * num) % den) = den

\* the hundredth nearest num / den, which is not halfway between two
NearestHundredth(num, den) ==
    (100 * num) \div den + (IF 2 * ((100 * num) % den) > den THEN 1 ELSE 0)

\* round(num / den, 2) in hundredths, for num >= 0 and den > 0.  The float
\* is within 1e-12 of the exact quotient, so the two round alike unless
\* the exact quotient lies halfway between two hundredths.
Round2(num, den) ==
    IF HalfwayHundredths(num, den)
    THEN FRound2(FDiv(FInt(num), FInt(den)))
    ELSE NearestHundredth(num, den)

(***************************************************************************)
(* get_india_vix                                                           *)
(***************************************************************************)
get_india_vix(f) ==
    IF f.ok
    THEN [value |-> Some(f.close),
          signal |-> IF f.close < 15 THEN "LOW"
                     ELSE IF f.close < VixCeiling THEN "NORMAL" ELSE "HIGH",
          safe_to_trade |-> f.close < VixCeiling]
    ELSE [value |-> None, signal |-> "UNAVAILABLE", safe_to_trade |-> TRUE]

(***************************************************************************)
(* atr                                                                     *)
(***************************************************************************)
TrueRange(df, k) ==
    IF k = 0
    THEN At(df, 0).High - At(df, 0).Low
    ELSE Max2(At(df, k).High - At(df, k).Low,
              Max2(Abs(At(df, k).High - At(df, k - 1).Close),
                   Abs(At(df, k).Low - At(df, k - 1).Close)))

RECURSIVE TrSum(_, _, _)
TrSum(df, from, to) ==
    IF from > to THEN 0 ELSE TrueRange(df, to) + TrSum(df, from, to - 1)

\* sum of the rolling window of `period` true ranges that ends at index k
RollingSum(df, k, period) == TrSum(df, k - period + 1, k)

\* mutant: an ATR level with the previous one counts as expanding
atr_NotStrict(df, period) ==
    IF Len(df) < period + 1
    THEN None
    ELSE LET cur == RollingSum(df, Len(df) - 1, period)
             prev == RollingSum(df, Len(df) - 2, period)
         IN Some([current |-> Some(Round2(cur, period)),
                  expanding |-> cur >= prev])
atr(df, period) ==
    IF Len(df) < period + 1
    THEN None
    ELSE LET cur == RollingSum(df, Len(df) - 1, period)
             prev == RollingSum(df, Len(df) - 2, period)
         IN Some([current |-> Some(Round2(cur, period)),
                  expanding |-> cur > prev])

AtrData(df) ==
    IF atr(df, AtrPeriod) = None
    THEN [current |-> None, expanding |-> FALSE]
    ELSE atr(df, AtrPeriod)[1]

(***************************************************************************)
(* Opening range                                                           *)
(***************************************************************************)
OpeningCandles(df) == between_time(df, MarketOpen, OpeningEnd)

OpeningRange(df) ==
    LET oc == OpeningCandles(df)
        hi == SetMax({oc[k].High : k \in 1..Len(oc)})
        lo == SetMin({oc[k].Low : k \in 1..Len(oc)})
    IN [high |-> hi, low |-> lo, range |-> hi - lo]

(***************************************************************************)
(* Breakout detection and validation of one candle                         *)
(***************************************************************************)
AboveMinimum(d, r) == 10 * d > 2 * r
\* mutant: the strong threshold made inclusive
AboveStrong_Inclusive(d, r) == 10 * d >= 5 * r
AboveStrong(d, r) == 10 * d > 5 * r

Strength(d, r) ==
    IF AboveStrong(d, r) THEN "STRONG"
    ELSE IF AboveMinimum(d, r) THEN "MODERATE" ELSE "NONE"

Detect(close, o) ==
    IF close > o.high
    THEN LET d == close - o.high
         IN [breakout |-> IF AboveMinimum(d, o.range) THEN "CALL" ELSE "NONE",
             strength |-> IF AboveMinimum(d, o.range) THEN Strength(d, o.range) ELSE "NONE",
             distance |-> d]
    ELSE IF close < o.low
    THEN LET d == o.low - close
         IN [breakout |-> IF AboveMinimum(d, o.range) THEN "PUT" ELSE "NONE",
             strength |-> IF AboveMinimum(d, o.range) THEN Strength(d, o.range) ELSE "NONE",
             distance |-> d]
    ELSE [breakout |-> "NONE", strength |-> "NONE", distance |-> 0]

\* mutant: the late test applied only after the 14:00 hour
LateTradeWarning_AfterHour(t, strength) == HourOf(t) > LateHour /\ strength # "STRONG"
LateTradeWarning(t, strength) == HourOf(t) >= LateHour /\ strength # "STRONG"

\* the if/elif chain of the validation: the reason for `continue`, or "OK"
Validate(t, strength, vix, atrd) ==
    IF LateTradeWarning(t, strength) THEN "LATE"
    ELSE IF ~vix.safe_to_trade THEN "VIX"
    ELSE IF strength = "WEAK" THEN "WEAK"
    ELSE IF ~atrd.expanding THEN "ATR"
    ELSE "OK"

\* mutant: the target projected one range instead of 1.5
Target10_OneRange(breakout, o) ==
    IF breakout = "CALL" THEN 10 * o.high + 10 * o.range
    ELSE 10 * o.low - 10 * o.range
Target10(breakout, o) ==
    IF breakout = "CALL" THEN 10 * o.high + 15 * o.range
    ELSE 10 * o.low - 15 * o.range

Stop10(breakout, o) ==
    IF breakout = "CALL" THEN 10 * o.high - 2 * o.range
    ELSE 10 * o.low + 2 * o.range

\* mutant: entry taken from the triggering candle itself
EntryPrice_Current(df, k) == At(df, k).Close
EntryPrice(df, k) == At(df, k - 1).Close

\* mutant: cooldown one sample short
InCooldown_Strict(k, until) == k < until
InCooldown(k, until) == k <= until
\* mutant: cap tested off by one
CapReached_OffByOne(n, cap) == n > cap
CapReached(n, cap) == n >= cap
CooldownEnd(k, c) == k + c
LoopEnd(df) == Len(df) - 1

\* mutant: trades numbered from zero
Trade_ZeroBased(df, k, o, det, n) ==
    [trade_number |-> n,
     signal |-> det.breakout,
     entry_time |-> strftime(At(df, k).t),
     entry_price |-> EntryPrice(df, k),
     breakout_type |-> det.breakout,
     breakout_strength |-> det.strength,
     distance_from_orb |-> det.distance,
     spot_target |-> Target10(det.breakout, o),
     spot_stop |-> Stop10(det.breakout, o)]
Trade(df, k, o, det, n) ==
    [trade_number |-> n + 1,
     signal |-> det.breakout,
     entry_time |-> strftime(At(df, k).t),
     entry_price |-> EntryPrice(df, k),
     breakout_type |-> det.breakout,
     breakout_strength |-> det.strength,
     distance_from_orb |-> det.distance,
     spot_target |-> Target10(det.breakout, o),
     spot_stop |-> Stop10(det.breakout, o)]

(***************************************************************************)
(* Inputs: the sessions, VIX readings and parameters the model explores    *)
(***************************************************************************)
Shape(h, l, c) == [High |-> h, Low |-> l, Close |-> c]
Candle(t, s) == [t |-> t, High |-> s.High, Low |-> s.Low, Close |-> s.Close]
Quiet == Shape(106, 104, 105)
Sane(c) == Shape(c + 1, c - 1, c)
\* a candle whose close lies above its own high (bad tick)
BadTick == Shape(106, 104, 119)

\* <<orb_high, orb_low>> set by the one wide candle of the opening window.
\* With the tail closes 119 and 91 (distance d from the range on either side):
\*   <<110,100>>  r=10 d=9   strong
\*   <<113, 97>>  r=16 d=6   moderate
\*   <<115, 95>>  r=20 d=4   d = 0.2*r, too weak
\*   <<112, 98>>  r=14 d=7   d = 0.5*r, moderate
\*   <<107, 97>>  r=10       CALL stop 105 equals the quiet close
Profiles == {<<110, 100>>, <<113, 97>>, <<115, 95>>, <<112, 98>>, <<107, 97>>}
LateProfiles == {<<110, 100>>, <<113, 97>>}

TailCloses == {105, 119, 91}
FreeFrom == ScanStart + 4

RECURSIVE SeqsOf(_, _)
SeqsOf(S, n) ==
    IF n = 0 THEN {<<>>}
    ELSE {Append(s, x) : s \in SeqsOf(S, n - 1), x \in S}

\* shapes of a session: 7 opening candles (the wide one fourth), quiet up
\* to FreeFrom, then the free tail
Shapes(p, seventh, tail) ==
    <<Quiet, Quiet, Quiet, Shape(p[1], p[2], 105), Quiet, Quiet, seventh>>
    \o [k \in 1..(FreeFrom - 7) |-> Quiet] \o [k \in 1..Len(tail) |-> Sane(tail[k])]

\* time of candle k (0-based): contiguous from `first`; when `late`, the
\* free tail starts at 14:00 after a gap in the feed
TimeOf(k, first, late) ==
    IF late /\ k >= FreeFrom THEN 840 + 5 * (k - FreeFrom) ELSE first + 5 * k

Session(p, seventh, tail, first, late, n) ==
    LET sh == Shapes(p, seventh, tail)
    IN [k \in 1..n |-> Candle(TimeOf(k - 1, first, late), sh[k])]

Tails == SeqsOf(TailCloses, MaxLen - FreeFrom)

\* full sessions from 09:15 on
Regular ==
    {Session(p, Quiet, tail, MarketOpen, FALSE, MaxLen) : p \in Profiles, tail \in Tails}

\* full sessions with a bad tick at 09:45, or whose tail trades after 14:00
Special ==
    {Session(<<110, 100>>, BadTick, tail, MarketOpen, FALSE, MaxLen) : tail \in Tails}
    \cup {Session(p, Quiet, tail, MarketOpen, TRUE, MaxLen) : p \in LateProfiles, tail \in Tails}

\* short sessions, and sessions whose feed starts at 09:05 or at 09:20
Partial ==
    {Session(<<110, 100>>, Quiet, tail, first, FALSE, n) :
        tail \in Tails, first \in {545, 555, 560}, n \in {0, 5, 9, 10, 12, 14}}

VixFetches == {[ok |-> FALSE, close |-> 0], [ok |-> TRUE, close |-> 19],
               [ok |-> TRUE, close |-> 20], [ok |-> TRUE, close |-> 21]}

Config(c, m, v) == [cooldown |-> c, cap |-> m, vix |-> v]

\* every cooldown and cap of the bounds under a safe VIX reading
ScanConfigs ==
    {Config(c, m, [ok |-> TRUE, close |-> 19]) : c \in 0..MaxCooldown, m \in 1..MaxCap}

\* the parameters main passes, under every VIX reading
MainConfigs == {Config(DefaultCooldown, DefaultCap, v) : v \in VixFetches}

Inputs ==
    (Regular \X (ScanConfigs \cup MainConfigs)) \cup ((Special \cup Partial) \X MainConfigs)

(***************************************************************************)
(* State machine                                                           *)
(***************************************************************************)
NoResult == [status |-> "RUNNING"]

\* no run of analyze_orb is under way
OrbIdle ==
    /\ hist = <<>>
    /\ vix_fetch = [ok |-> FALSE, close |-> 0]
    /\ max_trades_per_day = DefaultCap
    /\ cooldown_candles = DefaultCooldown
    /\ pc = "idle"
    /\ i = ScanStart
    /\ trades = <<>>
    /\ cooldown_until = -1
    /\ orb = [high |-> 0, low |-> 0, range |-> 0]
    /\ atr_data = [current |-> None, expanding |-> FALSE]
    /\ vix_data = get_india_vix([ok |-> FALSE, close |-> 0])
    /\ evaluated = {}
    /\ result = NoResult

\* no call of calculate_rsi is under way
RsiIdle ==
    /\ prices = <<>>
    /\ rsi_period = 0
    /\ rsi = None

\* neither engine_nse.py nor engine_quickfix.py runs
LiveIdle ==
    /\ program = "none"
    /\ upstream = <<>>
    /\ step = "idle"
    /\ data = <<>>
    /\ data_json = None
    /\ exit_code = None

\* main of engine.py does not run
MainIdle ==
    /\ feeds = <<>>
    /\ run = 0
    /\ main_step = "idle"
    /\ instrument = "none"
    /\ live = <<>>
    /\ backtests = <<>>
    /\ outputs = <<>>

\* no call of backtest_orb_premium_based is under way
BacktestIdle ==
    /\ daily = [ok |-> FALSE, days |-> <<>>]
    /\ bt_max_trades_per_day = DefaultCap
    /\ bt_cooldown_candles = DefaultCooldown
    /\ bt_pc = "idle"
    /\ day_idx = 0
    /\ bt_i = ScanStart
    /\ day_trades = 0
    /\ bt_cooldown_until = -1
    /\ all_trades = <<>>
    /\ triggers = <<>>
    /\ bt_result = None

Init ==
    /\ \E in \in Inputs :
          /\ hist = in[1]
          /\ vix_fetch = in[2].vix
          /\ max_trades_per_day = in[2].cap
          /\ cooldown_candles = in[2].cooldown
    /\ pc = "start"
    /\ i = ScanStart
    /\ trades = <<>>
    /\ cooldown_until = -1
    /\ orb = [high |-> 0, low |-> 0, range |-> 0]
    /\ atr_data = [current |-> None, expanding |-> FALSE]
    /\ vix_data = get_india_vix([ok |-> FALSE, close |-> 0])
    /\ evaluated = {}
    /\ result = NoResult
    /\ RsiIdle
    /\ LiveIdle
    /\ MainIdle
    /\ BacktestIdle

Return(r) ==
    /\ result' = r
    /\ pc' = "done"

\* analyze_orb up to the loop: market-hours filter, the three early
\* returns, opening range, ATR and VIX
Prelude ==
    /\ pc = "start"
    /\ LET market == between_time(hist, MarketOpen, MarketClose)
       IN IF Len(hist) = 0
          THEN /\ Return([status |-> "NO_DATA", error |-> "No data available",
                          trades |-> <<>>])
               /\ UNCHANGED <<hist, orb, atr_data, vix_data>>
          ELSE IF Len(market) < MinSessionCandles
          THEN /\ Return([status |-> "NO_DATA", error |-> "Not enough data",
                          trades |-> <<>>])
               /\ hist' = market
               /\ UNCHANGED <<orb, atr_data, vix_data>>
          ELSE IF Len(OpeningCandles(market)) < MinOpeningCandles
          THEN /\ Return([status |-> "WAITING",
                          message |-> "Opening range not yet formed",
                          trades |-> <<>>])
               /\ hist' = market
               /\ UNCHANGED <<orb, atr_data, vix_data>>
          ELSE /\ hist' = market
               /\ orb' = OpeningRange(market)
               /\ atr_data' = AtrData(market)
               /\ vix_data' = get_india_vix(vix_fetch)
               /\ pc' = "scan"
               /\ UNCHANGED result
    /\ UNCHANGED <<vix_fetch, max_trades_per_day, cooldown_candles, i, trades,
                   cooldown_until, evaluated>>
    /\ UNCHANGED not_orb_vars

\* mutant: the trades gathered so far are handed back with the error
Failure_KeepsTrades(e) == [status |-> "ERROR", error |-> e, trades |-> trades]
\* the dictionary the except clause returns
Failure(e) == [status |-> "ERROR", error |-> e, trades |-> <<>>]

\* one iteration of `for i in range(6, len(hist) - 1)`
ScanStep ==
    /\ pc = "scan"
    /\ i < LoopEnd(hist)
    /\ IF InCooldown(i, cooldown_until)
       THEN /\ i' = i + 1
            /\ UNCHANGED <<pc, trades, cooldown_until, evaluated, result>>
       ELSE IF CapReached(Len(trades), max_trades_per_day)
       THEN /\ pc' = "summary"
            /\ UNCHANGED <<i, trades, cooldown_until, evaluated, result>>
       ELSE LET det == Detect(At(hist, i).Close, orb)
                verdict == Validate(At(hist, i).t, det.strength, vix_data, atr_data)
            IN /\ evaluated' = evaluated \cup {i}
               /\ IF det.breakout = "NONE" \/ verdict # "OK"
                  THEN /\ i' = i + 1
                       /\ UNCHANGED <<pc, trades, cooldown_until, result>>
                  ELSE IF 10 * EntryPrice(hist, i) = Stop10(det.breakout, orb)
                  THEN \* risk_reward divides by zero: the except clause returns
                       /\ Return(Failure("float division by zero"))
                       /\ UNCHANGED <<i, trades, cooldown_until>>
                  ELSE /\ trades' = Append(trades, Trade(hist, i, orb, det, Len(trades)))
                       /\ cooldown_until' = CooldownEnd(i, cooldown_candles)
                       /\ i' = i + 1
                       /\ UNCHANGED <<pc, result>>
    /\ UNCHANGED <<hist, vix_fetch, max_trades_per_day, cooldown_candles, orb,
                   atr_data, vix_data>>
    /\ UNCHANGED not_orb_vars

\* the result dictionary built after the loop
Summary ==
    /\ \/ pc = "summary"
       \/ pc = "scan" /\ i >= LoopEnd(hist)
    /\ Return([status |-> IF Len(trades) > 0 THEN "ACTIVE" ELSE "NO_SIGNALS",
               total_trades |-> Len(trades),
               max_trades_per_day |-> max_trades_per_day,
               current_price |-> At(hist, Len(hist) - 2).Close,
               opening_range |-> [high |-> orb.high, low |-> orb.low, size |-> orb.range],
               volatility |-> [atr |-> atr_data, india_vix |-> vix_data],
               trades |-> trades])
    /\ UNCHANGED <<hist, vix_fetch, max_trades_per_day, cooldown_candles, i, trades,
                   cooldown_until, orb, atr_data, vix_data, evaluated>>
    /\ UNCHANGED not_orb_vars

Next == Prelude \/ ScanStep \/ Summary

Spec == Init /\ [][Next]_vars

(***************************************************************************)
(* Vocabulary of the properties.  The classification of a sample is        *)
(* restated here from the rule (distance against 0.2 and 0.5 of the        *)
(* range), not taken from Detect.                                          *)
(***************************************************************************)
CloseOf(k) == At(hist, k).Close

SideOf(k) ==
    IF CloseOf(k) > orb.high THEN "CALL"
    ELSE IF CloseOf(k) < orb.low THEN "PUT" ELSE "NONE"

DistOf(k) ==
    IF CloseOf(k) > orb.high THEN CloseOf(k) - orb.high
    ELSE IF CloseOf(k) < orb.low THEN orb.low - CloseOf(k) ELSE 0

ClassOf(k) ==
    IF SideOf(k) = "NONE" THEN "REJECT"
    ELSE IF 2 * DistOf(k) > orb.range THEN "STRONG"
    ELSE IF 5 * DistOf(k) > orb.range THEN "MODERATE" ELSE "REJECT"

\* index of the sample that triggered a trade (entry_time is its time)
TriggerIndex(tr) ==
    CHOOSE k \in 0..(Len(hist) - 1) : strftime(At(hist, k).t) = tr.entry_time

\* positions of the trades of a list that sample k triggered
TradesAt(list, k) ==
    {a \in 1..Len(list) : list[a].entry_time = strftime(At(hist, k).t)}

Spaced(list, c) ==
    \A a, b \in 1..Len(list) :
        a # b => Abs(TriggerIndex(list[a]) - TriggerIndex(list[b])) > c

InOpeningWindow(t) == MarketOpen <= t /\ t <= OpeningEnd

RangeFormed ==
    /\ Len(hist) >= MinSessionCandles
    /\ Len(OpeningCandles(hist)) >= MinOpeningCandles

\* the three rejections of the scan, as the rule states them
VixAboveCeiling == vix_fetch.ok /\ vix_fetch.close > 20
LateAndNotStrong(k) == HourOf(At(hist, k).t) >= 14 /\ ClassOf(k) # "STRONG"
Gated(k) == VixAboveCeiling \/ ~atr_data.expanding \/ LateAndNotStrong(k)

\* sample k passes every gate of the code (VIX below 20 or unavailable)
PassesGates(k) ==
    /\ ~(vix_fetch.ok /\ vix_fetch.close >= 20)
    /\ atr_data.expanding
    /\ ~LateAndNotStrong(k)

(***************************************************************************)
(* C1: any two trades of the list, during the scan and in the returned     *)
(* result, are triggered by samples more than cooldown_candles apart.      *)
(***************************************************************************)
C1_CooldownSpacing ==
    /\ Spaced(trades, cooldown_candles)
    /\ pc = "done" => Spaced(result.trades, cooldown_candles)

\* two returned trades exactly cooldown+1 apart, a qualifying sample between
C1_Witness ==
    /\ pc = "done"
    /\ cooldown_candles >= 1
    /\ \E a \in 1..(Len(result.trades) - 1) :
          /\ TriggerIndex(result.trades[a + 1]) - TriggerIndex(result.trades[a])
                = cooldown_candles + 1
          /\ ClassOf(TriggerIndex(result.trades[a]) + 1) # "REJECT"

(***************************************************************************)
(* C2: after a trade accepted at sample s, a qualifying breakout at        *)
(* s+1..s+c yields no trade, and a qualifying breakout at s+c+1 that       *)
(* passes the gates, with the cap not reached, yields a returned trade.    *)
(***************************************************************************)
C2_CooldownThenNext ==
    pc = "done" =>
        \A a \in 1..Len(trades) :
            LET s == TriggerIndex(trades[a])
                n == s + cooldown_candles + 1
            IN /\ \A k \in (s + 1)..(s + cooldown_candles) :
                     k < Len(hist) => TradesAt(trades, k) = {}
               /\ ( /\ n < LoopEnd(hist)
                    /\ a < max_trades_per_day
                    /\ ClassOf(n) # "REJECT"
                    /\ PassesGates(n) )
                  => Cardinality(TradesAt(result.trades, n)) = 1

(***************************************************************************)
(* C3: the trade list never exceeds max_trades_per_day, in the scan and in *)
(* the returned result, and no sample is evaluated once the cap has been   *)
(* reached.                                                                *)
(***************************************************************************)
TradesBefore(k) == {a \in 1..Len(trades) : TriggerIndex(trades[a]) < k}

C3_TradeCap ==
    /\ Len(trades) <= max_trades_per_day
    /\ pc = "done" => Len(result.trades) <= max_trades_per_day
    /\ \A k \in evaluated : Cardinality(TradesBefore(k)) < max_trades_per_day

\* the cap was reached and a later qualifying sample, outside cooldown, was
\* left unevaluated
C3_Witness ==
    /\ pc = "done"
    /\ Len(result.trades) = max_trades_per_day
    /\ \E k \in 0..(LoopEnd(hist) - 1) :
          /\ k > cooldown_until
          /\ k \notin evaluated
          /\ ClassOf(k) # "REJECT"
          /\ PassesGates(k)

(***************************************************************************)
(* C4: the entry price of a trade triggered by sample k is the close of    *)
(* sample k-1, and the last sample of the session triggers no trade.       *)
(***************************************************************************)
C4_EntryIsPreviousClose ==
    \A a \in 1..Len(trades) :
        LET k == TriggerIndex(trades[a])
        IN /\ k >= 1
           /\ trades[a].entry_price = CloseOf(k - 1)
           /\ k < Len(hist) - 1

\* a returned trade whose entry differs from its trigger's close, in a
\* session whose last sample is itself a qualifying breakout
C4_Witness ==
    /\ pc = "done"
    /\ \E a \in 1..Len(result.trades) :
          result.trades[a].entry_price # CloseOf(TriggerIndex(result.trades[a]))
    /\ ClassOf(Len(hist) - 1) # "REJECT"
    /\ PassesGates(Len(hist) - 1)
    /\ Len(hist) - 1 > cooldown_until
    /\ Len(result.trades) < max_trades_per_day

(***************************************************************************)
(* C5: every evaluated sample that qualifies by strength and passes the    *)
(* gates has exactly one trade in the returned result, whose entry is the  *)
(* close of the sample before it.                                          *)
(***************************************************************************)
C5_QualifyingSampleYieldsTrade ==
    pc = "done" =>
        \A k \in evaluated :
            (ClassOf(k) # "REJECT" /\ PassesGates(k)) =>
                /\ Cardinality(TradesAt(result.trades, k)) = 1
                /\ \A a \in TradesAt(result.trades, k) :
                      result.trades[a].entry_price = CloseOf(k - 1)

(***************************************************************************)
(* C6: a trade is a CALL with distance close - orb_high when the close is  *)
(* above the range and a PUT with distance orb_low - close when below; its *)
(* strength is STRONG iff distance > 0.5*range and MODERATE iff            *)
(* 0.2*range < distance <= 0.5*range; a sample in neither class has no     *)
(* trade and starts no cooldown (the cooldown always ends cooldown_candles *)
(* after the last trade).                                                  *)
(***************************************************************************)
C6_StrengthClasses ==
    /\ \A a \in 1..Len(trades) :
          LET k == TriggerIndex(trades[a])
          IN /\ trades[a].breakout_type = SideOf(k)
             /\ trades[a].distance_from_orb = DistOf(k)
             /\ trades[a].breakout_strength = ClassOf(k)
             /\ ClassOf(k) \in {"STRONG", "MODERATE"}
    /\ \A k \in evaluated : ClassOf(k) = "REJECT" => TradesAt(trades, k) = {}
    /\ cooldown_until =
          IF trades = <<>> THEN -1
          ELSE TriggerIndex(trades[Len(trades)]) + cooldown_candles

\* a MODERATE trade at distance exactly 0.5*range, after an evaluated
\* sample that was rejected
C6_Witness ==
    /\ \E a \in 1..Len(trades) :
          /\ trades[a].breakout_strength = "MODERATE"
          /\ 2 * trades[a].distance_from_orb = orb.range
    /\ \E k \in evaluated : ClassOf(k) = "REJECT" /\ k >= FreeFrom

(***************************************************************************)
(* C7: a scan step on a strength-qualifying sample leaves the trade list   *)
(* and the cooldown unchanged when VIX is above 20, or ATR is not          *)
(* expanding, or the sample is at 14:00 or later and not STRONG; the trade *)
(* list grows only on a sample for which none of the three holds.          *)
(***************************************************************************)
C7_Gates ==
    [][ /\ ( /\ pc = "scan"
             /\ i < Len(hist)
             /\ ClassOf(i) # "REJECT"
             /\ Gated(i) )
           => (trades' = trades /\ cooldown_until' = cooldown_until)
        /\ trades' # trades
           => (ClassOf(i) # "REJECT" /\ ~Gated(i)) ]_vars

\* an evaluated MODERATE sample after 14:00 that VIX and ATR would have let
\* through, and that has no trade
C7_Witness ==
    /\ pc = "done"
    /\ \E k \in evaluated :
          /\ ClassOf(k) = "MODERATE"
          /\ HourOf(At(hist, k).t) >= 14
          /\ ~VixAboveCeiling
          /\ atr_data.expanding
          /\ TradesAt(result.trades, k) = {}

(***************************************************************************)
(* C8: a non-empty session whose opening window holds fewer than 7         *)
(* samples returns status WAITING, an empty trade list and no error field. *)
(***************************************************************************)
C8_WaitingWhenWindowShort ==
    (pc = "done" /\ Len(hist) > 0 /\ Len(OpeningCandles(hist)) < 7) =>
        /\ result.status = "WAITING"
        /\ result.trades = <<>>
        /\ "error" \notin DOMAIN result

(***************************************************************************)
(* C9: no sample with a time inside 09:15-09:45 is evaluated by the scan,  *)
(* and no trade has its entry_time inside that window.                     *)
(***************************************************************************)
C9_ScanAfterOpeningWindow ==
    /\ \A k \in evaluated : ~InOpeningWindow(At(hist, k).t)
    /\ \A a \in 1..Len(trades) :
          ~InOpeningWindow(At(hist, TriggerIndex(trades[a])).t)

(***************************************************************************)
(* C10: with the opening range formed and no trade emitted, the result is  *)
(* a non-error NO_SIGNALS with total_trades = 0, no trades and the opening *)
(* range; status is ACTIVE exactly when the returned list is non-empty,    *)
(* and total_trades is the length of the returned list.                    *)
(***************************************************************************)
C10_NoSignalsResult ==
    pc = "done" =>
        /\ (RangeFormed /\ trades = <<>>) =>
              /\ "error" \notin DOMAIN result
              /\ result.status = "NO_SIGNALS"
              /\ result.total_trades = 0
              /\ result.trades = <<>>
              /\ result.opening_range =
                    [high |-> orb.high, low |-> orb.low, size |-> orb.high - orb.low]
        /\ (result.status = "ACTIVE") <=> (result.trades # <<>>)
        /\ "total_trades" \in DOMAIN result => result.total_trades = Len(result.trades)

(***************************************************************************)
(* C11: with range = orb_high - orb_low, a CALL has target                 *)
(* orb_high + 1.5*range and stop orb_high - 0.2*range, a PUT has target    *)
(* orb_low - 1.5*range and stop orb_low + 0.2*range (levels in tenths);    *)
(* the target lies beyond the broken level, the stop inside                *)
(* [orb_low, orb_high], and both are the same for every trade of a side    *)
(* whatever its entry price.                                               *)
(***************************************************************************)
C11_TargetAndStop ==
    /\ \A a \in 1..Len(trades) :
          LET tr == trades[a]
              r == orb.high - orb.low
          IN IF tr.breakout_type = "CALL"
             THEN /\ tr.spot_target = 10 * orb.high + 15 * r
                  /\ tr.spot_stop = 10 * orb.high - 2 * r
                  /\ tr.spot_target > 10 * orb.high
                  /\ 10 * orb.low <= tr.spot_stop /\ tr.spot_stop <= 10 * orb.high
             ELSE /\ tr.breakout_type = "PUT"
                  /\ tr.spot_target = 10 * orb.low - 15 * r
                  /\ tr.spot_stop = 10 * orb.low + 2 * r
                  /\ tr.spot_target < 10 * orb.low
                  /\ 10 * orb.low <= tr.spot_stop /\ tr.spot_stop <= 10 * orb.high
    /\ \A a, b \in 1..Len(trades) :
          trades[a].breakout_type = trades[b].breakout_type =>
              /\ trades[a].spot_target = trades[b].spot_target
              /\ trades[a].spot_stop = trades[b].spot_stop

\* a returned CALL and a returned PUT, and two trades of one side entered
\* at different prices
C11_Witness ==
    /\ pc = "done"
    /\ \E a, b \in 1..Len(result.trades) :
          /\ result.trades[a].breakout_type = "CALL"
          /\ result.trades[b].breakout_type = "PUT"
    /\ \E a, b \in 1..Len(result.trades) :
          /\ result.trades[a].breakout_type = result.trades[b].breakout_type
          /\ result.trades[a].entry_price # result.trades[b].entry_price

(***************************************************************************)
(* C23: with fewer than 15 samples the ATR data of analyze_orb has a null  *)
(* current value and expanding = false whatever the samples are, and the   *)
(* run does not end in an error; with 15 samples or more, expanding is     *)
(* true exactly when the latest rolling mean of the true range is above    *)
(* the previous one, that is when the newest true range is above the one   *)
(* that left the window.                                                   *)
(***************************************************************************)
AtrComputed ==
    \/ pc \in {"scan", "summary"}
    \/ pc = "done" /\ result.status \in {"ACTIVE", "NO_SIGNALS", "ERROR"}

C23_AtrData ==
    AtrComputed =>
        IF Len(hist) < 15
        THEN /\ atr_data.current = None
             /\ ~atr_data.expanding
             /\ pc = "done" => (result.status # "ERROR" /\ "error" \notin DOMAIN result)
        ELSE /\ atr_data.current # None
             /\ atr_data.expanding <=>
                   TrueRange(hist, Len(hist) - 1) > TrueRange(hist, Len(hist) - 15)

\* fourteen samples with a close above the range: nothing but NO_SIGNALS
C23_Witness ==
    /\ pc = "done"
    /\ Len(hist) = 14
    /\ result.status = "NO_SIGNALS"
    /\ atr_data = [current |-> None, expanding |-> FALSE]
    /\ \E k \in evaluated : CloseOf(k) > orb.high

(***************************************************************************)
(* C24: when the VIX request fails or brings no row, get_india_vix gives a *)
(* null value with safe_to_trade = true; no breakout of that run is        *)
(* rejected for volatility (an evaluated breakout that is strong enough,   *)
(* under an expanding ATR and not a late weak one, is traded), and the run *)
(* does not end in an error.                                               *)
(***************************************************************************)
C24_VixUnavailableIsSafe ==
    (~vix_fetch.ok /\ AtrComputed) =>
        /\ vix_data.value = None
        /\ vix_data.safe_to_trade
        /\ \A k \in evaluated :
              (ClassOf(k) # "REJECT" /\ atr_data.expanding /\ ~LateAndNotStrong(k)) =>
                  \/ TradesAt(trades, k) # {}
                  \/ pc = "done" /\ result.status = "ERROR" /\ k = i
        /\ pc = "done" => (result.status # "ERROR" /\ "error" \notin DOMAIN result)

\* an entry_time as seconds since midnight
ClockSeconds(et) == 3600 * et[1] + 60 * et[2] + et[3]

(***************************************************************************)
(* C25: the trades of a returned result stand in strictly increasing order *)
(* of trigger sample (and of entry_time), their trade_number fields are    *)
(* 1, 2, ..., n in list order, and n is the total_trades of the result.    *)
(***************************************************************************)
C25_OrderedAndNumbered ==
    (pc = "done" /\ "trades" \in DOMAIN result) =>
        LET ts == result.trades
        IN /\ \A a \in 1..Len(ts) : ts[a].trade_number = a
           /\ \A a \in 1..(Len(ts) - 1) :
                 /\ TriggerIndex(ts[a]) < TriggerIndex(ts[a + 1])
                 /\ ClockSeconds(ts[a].entry_time) < ClockSeconds(ts[a + 1].entry_time)
           /\ "total_trades" \in DOMAIN result => result.total_trades = Len(ts)

\* a returned result of two trades, a CALL and then a PUT
C25_Witness ==
    /\ pc = "done"
    /\ result.status = "ACTIVE"
    /\ result.total_trades = 2
    /\ result.trades[1].signal = "CALL"
    /\ result.trades[2].signal = "PUT"
    /\ result.trades[2].trade_number = 2

\* the scan stopped at a sample that qualifies and whose entry equals its
\* stop: the risk/reward quotient has a zero divisor there
RaisedInScan ==
    /\ pc = "done"
    /\ i \in evaluated
    /\ ClassOf(i) # "REJECT"
    /\ PassesGates(i)
    /\ 10 * CloseOf(i - 1) = Stop10(SideOf(i), orb)

(***************************************************************************)
(* C28: when a step of the scan raises, the result returned has status     *)
(* ERROR, an error string and an empty trades list and nothing else: the   *)
(* trades accepted earlier in the scan are not part of it.                 *)
(***************************************************************************)
C28_ErrorDropsTrades ==
    RaisedInScan =>
        /\ DOMAIN result = {"status", "error", "trades"}
        /\ result.status = "ERROR"
        /\ result.error = "float division by zero"
        /\ result.trades = <<>>

\* the division fails after a trade was accepted in the same scan
C28_Witness ==
    /\ RaisedInScan
    /\ result.status = "ERROR"
    /\ Len(trades) = 1
    /\ TriggerIndex(trades[1]) < i
    /\ result.trades = <<>>

(***************************************************************************)
(* calculate_rsi (engine_nse.py).  Prices are whole rupees; the value      *)
(* returned is held in hundredths, so 50 is 5000 and 100 is 10000.         *)
(***************************************************************************)
RsiPeriod == 14          \* default of the parameter `period`
MaxPeriod == 3           \* periods 1..MaxPeriod besides the default
MaxSamples == 5          \* longest list of the exhaustive family

RECURSIVE SumSeq(_)
SumSeq(s) == IF s = <<>> THEN 0 ELSE Head(s) + SumSeq(Tail(s))

\* s[-n:]: the last n elements for n > 0; for n <= 0 it is s[k:] with
\* k = -n, the list without its first k elements, so s[-0:] is the whole
\* list
LastN(s, n) ==
    IF n > 0 THEN SubSeq(s, Max2(1, Len(s) - n + 1), Len(s))
    ELSE SubSeq(s, 1 - n, Len(s))

\* 100 - (100 / (1 + rs)) with rs = avg_gain / avg_loss, the averages being
\* the sums over the period, as the floats of the code; loss > 0, n # 0.
\* Under a negative period both averages are negative (avg_gain may be
\* -0.0), and their quotient rs is the quotient of their magnitudes.
RsiFloat(gain, loss, n) ==
    LET avg_gain == FDiv(FInt(gain), FInt(Abs(n)))
        avg_loss == FDiv(FInt(loss), FInt(Abs(n)))
        rs == FDiv(avg_gain, avg_loss)
    IN FSub(FInt(100), FDiv(FInt(100), FAdd(FInt(1), rs)))

\* round(rsi, 2) in hundredths.  The exact value of rsi is
\* 100 * gain / (gain + loss); the float is within 1e-12 of it, so the two
\* round alike unless the exact value lies halfway between two hundredths.
\* mutant: the value is cut after the second decimal
RoundPct_Truncate(gain, loss, n) == (10000 * gain) \div (gain + loss)
RoundPct(gain, loss, n) ==
    IF HalfwayHundredths(100 * gain, gain + loss)
    THEN FRound2(RsiFloat(gain, loss, n))
    ELSE NearestHundredth(100 * gain, gain + loss)

\* the changes prices[i] - prices[i-1] for i in range(1, len(prices))
Changes(ps) == [k \in 1..(Len(ps) - 1) |-> ps[k + 1] - ps[k]]
\* mutant: a fall is booked as a gain too
Gains_Absolute(ps) == [k \in 1..(Len(ps) - 1) |-> Abs(Changes(ps)[k])]
Gains(ps) == [k \in 1..(Len(ps) - 1) |-> IF Changes(ps)[k] > 0 THEN Changes(ps)[k] ELSE 0]
Losses(ps) == [k \in 1..(Len(ps) - 1) |-> IF Changes(ps)[k] > 0 THEN 0 ELSE Abs(Changes(ps)[k])]

\* mutant: a list of exactly `period` samples is taken as long enough
TooShort_OffByOne(ps, n) == Len(ps) < n
\* len(prices) < period + 1
TooShort(ps, n) == Len(ps) < n + 1

\* mutant: the window holds one difference more than the period
Window_OneMore(s, n) == LastN(s, n + 1)
\* gains[-period:], losses[-period:]
Window(s, n) == LastN(s, n)

calculate_rsi(ps, n) ==
    IF TooShort(ps, n) THEN 5000
    ELSE LET gain == SumSeq(Window(Gains(ps), n))
             loss == SumSeq(Window(Losses(ps), n))
         IN IF n = 0 THEN ZeroDivisionError     \* sum(...) / period
            ELSE IF loss = 0 THEN 10000          \* avg_loss is 0.0 or -0.0
            ELSE RoundPct(gain, loss, n)

\* price lists: every list of up to MaxSamples prices for the periods
\* 1..MaxPeriod, and for the default period rising, flat, falling and
\* alternating lists, and rising lists that open or close with a fall
RsiValues == 100..(100 + MaxPeriod)
ShortLists == UNION {SeqsOf(RsiValues, n) : n \in 0..MaxSamples}

Ramp(n) == [k \in 1..n |-> 100 + 2 * k]
Flat(n) == [k \in 1..n |-> 100]
Fall(n) == [k \in 1..n |-> 200 - 3 * k]
Zigzag(n) == [k \in 1..n |-> 100 + 5 * (k % 2)]
DipFirst(n) == <<110>> \o Ramp(n - 1)
DipLast(n) == Ramp(n - 1) \o <<100>>

DefaultLists ==
    UNION {{Ramp(n), Flat(n), Fall(n), Zigzag(n), DipFirst(n), DipLast(n)} :
              n \in (RsiPeriod - 1)..(RsiPeriod + 2)}

\* lists whose exact value lies halfway between two hundredths: 5.625,
\* 51.875, 8.125 and 16.875 under period 2, 41.875 under period 3
HalfwayLists ==
    {<<<<1000, 1009, 858>>, 2>>, <<<<1000, 1249, 1018>>, 2>>, <<<<1000, 1026, 732>>, 2>>,
     <<<<1000, 1027, 894>>, 2>>, <<<<1000, 1000, 1134, 948>>, 3>>}

RsiInputs ==
    (ShortLists \X (1..MaxPeriod)) \cup (DefaultLists \X {RsiPeriod}) \cup HalfwayLists

RsiInit ==
    /\ \E in \in RsiInputs :
          /\ prices = in[1]
          /\ rsi_period = in[2]
    /\ rsi = None
    /\ OrbIdle
    /\ LiveIdle
    /\ MainIdle
    /\ BacktestIdle

\* the call calculate_rsi(prices, rsi_period)
CalculateRsi ==
    /\ rsi = None
    /\ rsi' = Some(calculate_rsi(prices, rsi_period))
    /\ UNCHANGED <<prices, rsi_period>>
    /\ UNCHANGED not_rsi_vars

RsiNext == CalculateRsi

SpecRsi == RsiInit /\ [][RsiNext]_vars

(***************************************************************************)
(* C19: calculate_rsi returns exactly 50 for every list with fewer than    *)
(* period + 1 samples, the empty list included; the call always returns.   *)
(***************************************************************************)
C19_NeutralWhenShort ==
    (rsi # None /\ Len(prices) <= rsi_period) => rsi = Some(5000)

\* fourteen samples under the default period
C19_Witness ==
    /\ rsi = Some(5000)
    /\ rsi_period = RsiPeriod
    /\ Len(prices) = rsi_period

(***************************************************************************)
(* C20: calculate_rsi returns 100 whenever none of the trailing `period`   *)
(* differences is a fall (the average loss is zero), so for every strictly *)
(* increasing and every constant list longer than the period.              *)
(***************************************************************************)
NoFallInWindow ==
    \A k \in (Len(prices) - rsi_period)..(Len(prices) - 1) : prices[k + 1] >= prices[k]

C20_HundredWithoutLoss ==
    (rsi # None /\ Len(prices) > rsi_period /\ NoFallInWindow) => rsi = Some(10000)

\* a list that opens with a fall outside the window and rises afterwards
C20_Witness ==
    /\ rsi = Some(10000)
    /\ rsi_period = RsiPeriod
    /\ Len(prices) = rsi_period + 2
    /\ prices[2] < prices[1]
    /\ \A k \in 2..(Len(prices) - 1) : prices[k + 1] > prices[k]

(***************************************************************************)
(* C21: calculate_rsi returns 0 for every strictly decreasing list longer  *)
(* than the period.                                                        *)
(***************************************************************************)
StrictlyDecreasing == \A k \in 1..(Len(prices) - 1) : prices[k + 1] < prices[k]

C21_ZeroWhenFalling ==
    (rsi # None /\ Len(prices) > rsi_period /\ StrictlyDecreasing) => rsi = Some(0)

\* fifteen falling samples under the default period
C21_Witness ==
    /\ rsi = Some(0)
    /\ rsi_period = RsiPeriod
    /\ Len(prices) = rsi_period + 1
    /\ StrictlyDecreasing

(***************************************************************************)
(* C22: the value calculate_rsi returns lies in [0, 100]; when the list is *)
(* longer than the period and the trailing `period` differences hold a     *)
(* loss, it is 100 * gain / (gain + loss) over those differences.          *)
(***************************************************************************)
\* sums of the rises and of the falls among the trailing differences,
\* restated from the list
TrailingFrom == IF Len(prices) - rsi_period < 1 THEN 1 ELSE Len(prices) - rsi_period
RiseSum ==
    SumSeq([k \in 1..(Len(prices) - TrailingFrom) |->
               Max2(prices[TrailingFrom + k] - prices[TrailingFrom + k - 1], 0)])
FallSum ==
    SumSeq([k \in 1..(Len(prices) - TrailingFrom) |->
               Max2(prices[TrailingFrom + k - 1] - prices[TrailingFrom + k], 0)])

InRange == rsi # None => (0 <= rsi[1] /\ rsi[1] <= 10000)

\* as stated: the value is the quotient itself
C22_ExactQuotient ==
    /\ InRange
    /\ (rsi # None /\ Len(prices) > rsi_period /\ FallSum # 0) =>
           rsi[1] * (RiseSum + FallSum) = 10000 * RiseSum

\* amended: the value is the quotient rounded to two decimals, that is
\* within half a hundredth of it; a list of at most `period` samples gives
\* 50 whatever its differences
C22_RoundedQuotient ==
    /\ InRange
    /\ (rsi # None /\ Len(prices) > rsi_period /\ FallSum # 0) =>
           2 * Abs(rsi[1] * (RiseSum + FallSum) - 10000 * RiseSum) <= RiseSum + FallSum
    /\ (rsi # None /\ Len(prices) <= rsi_period) => rsi = Some(5000)

\* one rise of 1 against one fall of 2 under period 2: 33.33
C22_Witness ==
    /\ rsi = Some(3333)
    /\ rsi_period = 2
    /\ RiseSum = 1
    /\ FallSum = 2

(***************************************************************************)
(* engine_nse.py and engine_quickfix.py.  A string the scripts build by    *)
(* formatting is held as the sequence of its parts: "ERROR - No Data" is   *)
(* <<"ERROR", "No Data">>, "Above 22000.00" is <<"Above", "22000">>, the   *)
(* empty string is <<>>.  Numbers are whole; the put/call ratio is in      *)
(* hundredths.                                                             *)
(***************************************************************************)
HighVix == 20            \* `vix > 20`
NearStrikes == 10        \* data_points[:10]
PcrBullish == 120        \* `pcr > 1.2`
PcrBearish == 80         \* `pcr < 0.8`
PcrNeutral == 100        \* pcr when total_call_oi is 0
NseMove == 100           \* current_price + 100, current_price - 100
RsiBullish == 55         \* `rsi > 55`
RsiBearish == 45         \* `rsi < 45`
QuickfixMove == 80       \* last + 80, last - 80
MaxHeadlines == 10       \* articles[:10]

Symbols == {"nifty", "banknifty"}

\* datetime.now().strftime("%H:%M")
Clock == "HH:MM"

\* s[:n]
FirstN(s, n) == SubSeq(s, 1, IF Len(s) < n THEN Len(s) ELSE n)

\* `if vix and vix > 20`
VixIsHigh(vix) == vix # None /\ vix[1] # 0 /\ vix[1] > HighVix

\* mutant: every strike of the chain is summed
PutCallRatio_AllStrikes(data_points) ==
    LET near == data_points
        total_call_oi == SumSeq([k \in 1..Len(near) |-> near[k].CE])
        total_put_oi == SumSeq([k \in 1..Len(near) |-> near[k].PE])
    IN IF total_call_oi > 0 THEN Round2(total_put_oi, total_call_oi) ELSE PcrNeutral
\* analyze_symbol: the put/call ratio over the first ten strikes
PutCallRatio(data_points) ==
    LET near == FirstN(data_points, NearStrikes)
        total_call_oi == SumSeq([k \in 1..Len(near) |-> near[k].CE])
        total_put_oi == SumSeq([k \in 1..Len(near) |-> near[k].PE])
    IN IF total_call_oi > 0 THEN Round2(total_put_oi, total_call_oi) ELSE PcrNeutral

\* analyze_symbol: side, entry and exit from the ratio
PcrSignal(pcr, current_price) ==
    IF pcr > PcrBullish
    THEN [side |-> <<"BUY CALL (CE)">>,
          entry |-> <<"Above", ToString(current_price)>>,
          exit |-> <<"Target", ToString(current_price + NseMove)>>]
    ELSE IF pcr < PcrBearish
    THEN [side |-> <<"BUY PUT (PE)">>,
          entry |-> <<"Below", ToString(current_price)>>,
          exit |-> <<"Target", ToString(current_price - NseMove)>>]
    ELSE [side |-> <<"AVOID">>, entry |-> <<>>, exit |-> <<>>]

\* analyze_symbol(symbol); u.chain is what get_nse_option_chain answers,
\* u.vix what get_india_vix answers
analyze_symbol(u) ==
    IF u.chain = None \/ u.chain[1].records = None
    THEN [side |-> <<"ERROR", "No Data">>, entry |-> <<>>, exit |-> <<>>,
          time |-> Clock, price |-> "N/A"]
    ELSE LET records == u.chain[1].records[1]
         IN IF records.numeric /\ records.underlyingValue = 0
            THEN [side |-> <<"ERROR", "No Price">>, entry |-> <<>>, exit |-> <<>>,
                  time |-> Clock, price |-> "N/A"]
            ELSE IF ~records.numeric
            THEN \* float(underlying_value) raises: the except clause
                 [side |-> <<"ERROR">>, entry |-> <<>>, exit |-> <<>>,
                  time |-> Clock, error |-> "could not convert string to float"]
            ELSE LET current_price == records.underlyingValue
                     pcr == PutCallRatio(records.data)
                     sig == PcrSignal(pcr, current_price)
                 IN [side |-> IF VixIsHigh(u.vix)
                              THEN sig.side \o <<"High Volatility", ToString(u.vix[1])>>
                              ELSE sig.side,
                     entry |-> sig.entry,
                     exit |-> sig.exit,
                     time |-> Clock,
                     price |-> ToString(current_price),
                     pcr |-> pcr,
                     vix |-> IF u.vix # None /\ u.vix[1] # 0
                             THEN ToString(u.vix[1]) ELSE "N/A"]

(***************************************************************************)
(* engine_quickfix.py.  What response.json() gives is a JSON value: null,  *)
(* a boolean, a number, a string, a list or a dictionary.  A string is     *)
(* held as the sequence of its words, together with what float() makes of  *)
(* it; a dictionary as the sequence of its <<key, value>> pairs.  A        *)
(* function of the script either returns a value or raises an exception.   *)
(***************************************************************************)
Json(t, num, words, number, items, fields) ==
    [t |-> t, num |-> num, words |-> words, number |-> number,
     items |-> items, fields |-> fields]

JNull == Json("null", 0, <<>>, None, <<>>, <<>>)
JBool(b) == Json("bool", IF b THEN 1 ELSE 0, <<>>, None, <<>>, <<>>)
JNum(n) == Json("num", n, <<>>, None, <<>>, <<>>)
\* an integer beyond the range of a float, such as 10**400
JHuge == Json("huge", 0, <<>>, None, <<>>, <<>>)
\* a string and the number it spells, None if it spells none
JStr(words, number) == Json("str", 0, words, number, <<>>, <<>>)
JText(words) == JStr(words, None)
JNumStr(n) == JStr(<<ToString(n)>>, Some(n))
JList(items) == Json("list", 0, <<>>, None, items, <<>>)
JDict(fields) == Json("dict", 0, <<>>, None, <<>>, fields)

Returns(v) == [raised |-> None, value |-> v]
Raises(e) == [raised |-> Some(e), value |-> None]

\* bool(j), as in `if not r`
Truthy(j) ==
    CASE j.t = "null" -> FALSE
      [] j.t \in {"bool", "num"} -> j.num # 0
      [] j.t = "huge" -> TRUE
      [] j.t = "str" -> j.words # <<>>
      [] j.t = "list" -> j.items # <<>>
      [] j.t = "dict" -> j.fields # <<>>

\* `key in j` and len(j) raise TypeError unless j is one of these
Container(j) == j.t \in {"str", "list", "dict"}

HasKey(j, key) == \E k \in 1..Len(j.fields) : j.fields[k][1] = key
\* j[key] for a dictionary j that has the key
Field(j, key) == j.fields[CHOOSE k \in 1..Len(j.fields) : j.fields[k][1] = key][2]

\* `key in j` for a container: a key of the dictionary, an element of the
\* list, a part of the string
Contains(key, j) ==
    CASE j.t = "dict" -> HasKey(j, key)
      [] j.t = "list" -> \E k \in 1..Len(j.items) : j.items[k] = JText(<<key>>)
      [] j.t = "str" -> \E k \in 1..Len(j.words) : j.words[k] = key

\* float(j)
float(j) ==
    CASE j.t \in {"num", "bool"} -> Returns(j.num)
      [] j.t = "str" -> IF j.number # None THEN Returns(j.number[1])
                        ELSE Raises("ValueError")
      [] j.t = "huge" -> Raises("OverflowError")
      [] OTHER -> Raises("TypeError")

\* safe_request: resp is None when the request fails (timeout, HTTP error,
\* a body that is no JSON) and holds the parsed body otherwise
safe_request(resp) ==
    IF /\ resp # None
       /\ resp[1].t = "dict"
       /\ HasKey(resp[1], "status")
       /\ Field(resp[1], "status") = JText(<<"error">>)
    THEN None
    ELSE resp

\* `if key not in r: logger.error(... list(r.keys()) ...); return None`
\* followed by r[key], for r that is truthy: "TypeError" and
\* "AttributeError" are raised, "absent" returns None, "present" goes on
Lookup(r, key) ==
    IF ~Container(r) THEN "TypeError"                       \* key not in r
    ELSE IF ~Contains(key, r)
    THEN (IF r.t = "dict" THEN "absent" ELSE "AttributeError")   \* r.keys()
    ELSE IF r.t = "dict" THEN "present" ELSE "TypeError"    \* r[key]

RECURSIVE Closes(_, _, _)
\* [float(x["close"]) for x in values if "close" in x] from element k of
\* the list on, inside the try of get_price; closes holds the floats so far
Closes(values, k, closes) ==
    IF k > Len(values)
    THEN (IF closes = <<>> THEN Returns(None) ELSE Returns(Some(closes)))
    ELSE IF ~Container(values[k]) THEN Returns(None)         \* TypeError, caught
    ELSE IF ~Contains("close", values[k]) THEN Closes(values, k + 1, closes)
    ELSE IF values[k].t # "dict" THEN Returns(None)          \* TypeError, caught
    ELSE IF float(Field(values[k], "close")).raised = None
    THEN Closes(values, k + 1,
                Append(closes, float(Field(values[k], "close")).value))
    ELSE IF float(Field(values[k], "close")).raised = Some("OverflowError")
    THEN float(Field(values[k], "close"))                    \* not caught
    ELSE Returns(None)                          \* ValueError, TypeError, caught

\* get_price from `values = r["values"]` on.  The elements of a string are
\* characters and those of a dictionary its keys: none yields a close.
PriceValues(values) ==
    IF ~Truthy(values) THEN Returns(None)
    ELSE IF ~Container(values) THEN Raises("TypeError")      \* len(values)
    ELSE IF values.t # "list" THEN Returns(None)
    ELSE Closes(values.items, 1, <<>>)

\* get_price(symbol), resp being what its request gives
get_price(resp) ==
    CHOOSE outcome \in
        {IF r = None \/ ~Truthy(r[1]) THEN Returns(None)
         ELSE IF Lookup(r[1], "values") = "absent" THEN Returns(None)
         ELSE IF Lookup(r[1], "values") # "present"
         THEN Raises(Lookup(r[1], "values"))
         ELSE PriceValues(Field(r[1], "values")) : r \in {safe_request(resp)}} : TRUE

\* float(values[0][key]) inside the try of get_indicator and float(r["close"])
\* inside that of get_vix: ValueError and TypeError are caught
Reading(j, key) ==
    IF j.t # "dict" THEN Returns(None)                       \* TypeError, caught
    ELSE IF float(Field(j, key)).raised = None
    THEN Returns(Some(float(Field(j, key)).value))
    ELSE IF float(Field(j, key)).raised = Some("OverflowError")
    THEN float(Field(j, key))                                \* not caught
    ELSE Returns(None)

\* get_indicator from `key not in values[0]` on
IndicatorFirst(first, key) ==
    IF ~Container(first) THEN Raises("TypeError")            \* key not in values[0]
    ELSE IF ~Contains(key, first) THEN Returns(None)
    ELSE Reading(first, key)

\* get_indicator from `values = r["values"]` on.  values[0] of a dictionary
\* raises KeyError; that of a string is a character, which holds no key.
IndicatorValues(values, key) ==
    IF ~Truthy(values) THEN Returns(None)
    ELSE IF ~Container(values) THEN Raises("TypeError")      \* len(values)
    ELSE IF values.t = "dict" THEN Raises("KeyError")        \* values[0]
    ELSE IF values.t = "str" THEN Returns(None)
    ELSE IndicatorFirst(values.items[1], key)

\* get_indicator(symbol, indicator), key being indicator.lower()
get_indicator(resp, key) ==
    CHOOSE outcome \in
        {IF r = None \/ ~Truthy(r[1]) THEN Returns(None)
         ELSE IF Lookup(r[1], "values") = "absent" THEN Returns(None)
         ELSE IF Lookup(r[1], "values") # "present"
         THEN Raises(Lookup(r[1], "values"))
         ELSE IndicatorValues(Field(r[1], "values"), key) : r \in {safe_request(resp)}} : TRUE

\* get_vix(): r["close"] stands inside the try, so a list or a string that
\* holds "close" gives None
get_vix(resp) ==
    CHOOSE outcome \in
        {IF r = None \/ ~Truthy(r[1]) THEN Returns(None)
         ELSE IF ~Container(r[1]) THEN Raises("TypeError")   \* "close" not in r
         ELSE IF ~Contains("close", r[1])
         THEN (IF r[1].t = "dict" THEN Returns(None)
               ELSE Raises("AttributeError"))                \* r.keys()
         ELSE Reading(r[1], "close") : r \in {safe_request(resp)}} : TRUE

BearishWords == {"crash", "fall", "fear", "drop", "war", "inflation"}
BullishWords == {"rise", "growth", "profit", "gain", "bullish", "record"}

\* str.lower() on a word of the titles
lower(w) ==
    CASE w = "Crash" -> "crash"
      [] w = "RISE" -> "rise"
      [] OTHER -> w

\* `w in t` for a word t of a title: w is t or a part of it
PartOf(w, t) == w = t \/ <<w, t>> \in {<<"war", "warning">>, <<"gain", "against">>}

\* any(w in t for w in [...]) for the title t
AnyIn(ws, t) == \E w \in ws : \E k \in 1..Len(t) : PartOf(w, t[k])

RECURSIVE Titles(_, _, _)
\* [a.get("title", "").lower() for a in articles[:10] if a.get("title")]
\* from element k on
Titles(articles, k, titles) ==
    IF k > Len(articles) THEN Returns(titles)
    ELSE IF articles[k].t # "dict" THEN Raises("AttributeError")      \* a.get
    ELSE IF ~HasKey(articles[k], "title") \/ ~Truthy(Field(articles[k], "title"))
    THEN Titles(articles, k + 1, titles)
    ELSE IF Field(articles[k], "title").t # "str"
    THEN Raises("AttributeError")                                     \* .lower()
    ELSE Titles(articles, k + 1,
                Append(titles, [x \in 1..Len(Field(articles[k], "title").words) |->
                                   lower(Field(articles[k], "title").words[x])]))

\* the loop over titles
Score(titles) ==
    SumSeq([k \in 1..Len(titles) |->
               (IF AnyIn(BullishWords, titles[k]) THEN 1 ELSE 0)
               - (IF AnyIn(BearishWords, titles[k]) THEN 1 ELSE 0)])

\* get_news_sentiment from `articles = r["articles"]` on.  articles[:10] of
\* a number raises TypeError and so does that of a dictionary (KeyError
\* from Python 3.12 on); the elements of a string have no get.
NewsArticles(articles) ==
    IF ~Truthy(articles) THEN Returns(0)
    ELSE IF articles.t = "str" THEN Raises("AttributeError")
    ELSE IF articles.t # "list" THEN Raises("TypeError")
    ELSE CHOOSE outcome \in
             {IF titles.raised # None THEN titles ELSE Returns(Score(titles.value)) :
                 titles \in {Titles(FirstN(articles.items, MaxHeadlines), 1, <<>>)}} : TRUE

\* get_news_sentiment(); without "articles" nothing is logged about r
get_news_sentiment(resp) ==
    CHOOSE outcome \in
        {IF r = None \/ ~Truthy(r[1]) THEN Returns(0)
         ELSE IF ~Container(r[1]) THEN Raises("TypeError")   \* "articles" not in r
         ELSE IF ~Contains("articles", r[1]) THEN Returns(0)
         ELSE IF r[1].t # "dict" THEN Raises("TypeError")    \* r["articles"]
         ELSE NewsArticles(Field(r[1], "articles")) : r \in {safe_request(resp)}} : TRUE

\* decision: the list `missing`
Missing(closes, ema, ind_rsi, macd) ==
    (IF closes = None \/ closes[1] = <<>> THEN <<"price">> ELSE <<>>)
    \o (IF ema = None THEN <<"EMA">> ELSE <<>>)
    \o (IF ind_rsi = None THEN <<"RSI">> ELSE <<>>)
    \o (IF macd = None THEN <<"MACD">> ELSE <<>>)

\* decision: `last > ema and rsi > 55 and macd > 0 and news >= 0`
CallRule(last, ema, ind_rsi, macd, news) ==
    last > ema /\ ind_rsi > RsiBullish /\ macd > 0 /\ news >= 0

\* decision: `last < ema and rsi < 45 and macd < 0 and news <= 0`
PutRule(last, ema, ind_rsi, macd, news) ==
    last < ema /\ ind_rsi < RsiBearish /\ macd < 0 /\ news <= 0

\* decision from `last = closes[-1]` on
Decide(closes, ema, ind_rsi, macd, vix, news) ==
    LET last == closes[Len(closes)]
        sig == IF CallRule(last, ema, ind_rsi, macd, news)
               THEN [side |-> <<"BUY CALL (CE)">>,
                     entry |-> <<"Above", ToString(last)>>,
                     exit |-> <<"Near", ToString(last + QuickfixMove)>>]
               ELSE IF PutRule(last, ema, ind_rsi, macd, news)
               THEN [side |-> <<"BUY PUT (PE)">>,
                     entry |-> <<"Below", ToString(last)>>,
                     exit |-> <<"Near", ToString(last - QuickfixMove)>>]
               ELSE [side |-> <<"AVOID">>, entry |-> <<>>, exit |-> <<>>]
    IN [side |-> IF VixIsHigh(vix) THEN sig.side \o <<"High Volatility">>
                 ELSE sig.side,
        entry |-> sig.entry,
        exit |-> sig.exit,
        time |-> Clock]

\* decision from `missing = []` on
Settle(closes, ema, ind_rsi, macd, vix, news) ==
    IF Missing(closes, ema, ind_rsi, macd) # <<>>
    THEN [side |-> <<"ERROR", "Missing">> \o Missing(closes, ema, ind_rsi, macd),
          entry |-> <<>>, exit |-> <<>>,
          time |-> Clock, error |-> "API data unavailable"]
    ELSE Decide(closes[1], ema[1], ind_rsi[1], macd[1], vix, news)

\* decision(symbol); u holds what the six requests give.  The calls follow
\* each other, and what one raises ends decision.
decision(u) ==
    CHOOSE outcome \in
        {IF closes.raised # None THEN closes
         ELSE IF ema.raised # None THEN ema
         ELSE IF ind_rsi.raised # None THEN ind_rsi
         ELSE IF macd.raised # None THEN macd
         ELSE IF vix.raised # None THEN vix
         ELSE IF news.raised # None THEN news
         ELSE Returns(Settle(closes.value, ema.value, ind_rsi.value, macd.value,
                             vix.value, news.value)) :
            closes \in {get_price(u.price)},
            ema \in {get_indicator(u.ema, "ema")},
            ind_rsi \in {get_indicator(u.rsi, "rsi")},
            macd \in {get_indicator(u.macd, "macd")},
            vix \in {get_vix(u.vix)},
            news \in {get_news_sentiment(u.news)}} : TRUE

(***************************************************************************)
(* What the upstream answers                                               *)
(***************************************************************************)
Strike(ce, pe) == [CE |-> ce, PE |-> pe]
ChainOf(value, numeric, points) ==
    Some([records |-> Some([underlyingValue |-> value, numeric |-> numeric,
                            data |-> points])])

\* open interest of the strikes: ratios 1.21, 1.20, 0.80, 0.79, no call
\* interest, no strike, two strikes summing to 1.21, 1.204 and 0.796 (which
\* round to the thresholds), 0.125, 1.125 and 1.205 (halfway between two
\* hundredths), and eleven strikes whose first ten give 1.30
StrikeLists ==
    {<<Strike(100, 121)>>, <<Strike(100, 120)>>, <<Strike(100, 80)>>,
     <<Strike(100, 79)>>, <<Strike(0, 50)>>, <<>>,
     <<Strike(60, 70), Strike(40, 51)>>,
     <<Strike(1000, 1204)>>, <<Strike(1000, 796)>>,
     <<Strike(8, 1)>>, <<Strike(8, 9)>>, <<Strike(200, 241)>>,
     [k \in 1..NearStrikes |-> Strike(10, 13)] \o <<Strike(1000, 0)>>}

\* get_nse_option_chain: no answer, an answer without 'records', without an
\* underlying value, with one that is no number, or a full chain
Chains ==
    {None, Some([records |-> None]), ChainOf(0, TRUE, <<Strike(100, 121)>>),
     ChainOf(0, FALSE, <<Strike(100, 121)>>)}
    \cup {ChainOf(22000, TRUE, pts) : pts \in StrikeLists}

VixReadings == {None, Some(20), Some(21)}

NseFeeds == [chain : Chains, vix : VixReadings]

NseUpstreams == [session : BOOLEAN, nifty : NseFeeds, banknifty : NseFeeds]

\* the body of a time_series answer with these closes, newest last
CloseEntry(c) == JDict(<<<<"datetime", JText(<<"2024-01-01">>)>>, <<"close", JNumStr(c)>>>>)
PriceAnswer(entries) ==
    Some(JDict(<<<<"status", JText(<<"ok">>)>>, <<"values", JList(entries)>>>>))
\* the body of an indicator answer
IndicatorAnswer(key, reading) ==
    Some(JDict(<<<<"status", JText(<<"ok">>)>>,
                 <<"values", JList(<<JDict(<<<<key, reading>>>>)>>)>>>>))
\* the body of a quote answer
VixAnswer(reading) == Some(JDict(<<<<"symbol", JText(<<"INDIAVIX">>)>>, <<"close", reading>>>>))
\* the body of a news answer
Article(title) == JDict(<<<<"title", title>>>>)
NewsAnswer(articles) ==
    Some(JDict(<<<<"status", JText(<<"ok">>)>>, <<"articles", JList(articles)>>>>))

Plain == Article(JText(<<"markets", "open", "flat">>))

PriceAnswers == {None, PriceAnswer(<<CloseEntry(100), CloseEntry(110)>>)}
EmaAnswers == {None} \cup {IndicatorAnswer("ema", JNumStr(n)) : n \in {100, 110, 120}}
RsiAnswers == {None} \cup {IndicatorAnswer("rsi", JNumStr(n)) : n \in {44, 45, 55, 56}}
MacdAnswers == {None} \cup {IndicatorAnswer("macd", JNumStr(n)) : n \in {-1, 0, 1}}
VixAnswers == {None} \cup {VixAnswer(JNumStr(n)) : n \in {20, 21}}

\* the news request: no answer, one bullish, one bearish, one mixed title,
\* and eleven articles of which only the last is bearish
NewsAnswers ==
    {None,
     NewsAnswer(<<Article(JText(<<"nifty", "hits", "record">>))>>),
     NewsAnswer(<<Article(JText(<<"markets", "fear", "inflation">>))>>),
     NewsAnswer(<<Article(JText(<<"profit", "despite", "war">>))>>),
     NewsAnswer([k \in 1..MaxHeadlines |-> Plain] \o <<Article(JText(<<"crash">>))>>)}

QuickfixFeeds ==
    [price : PriceAnswers, ema : EmaAnswers, rsi : RsiAnswers,
     macd : MacdAnswers, vix : VixAnswers, news : NewsAnswers]

QuickfixFeed(p, e, r, m, v, n) ==
    [price |-> p, ema |-> e, rsi |-> r, macd |-> m, vix |-> v, news |-> n]

\* every request failing, a bullish, a bearish and a neutral answer
QuickfixSamples ==
    {QuickfixFeed(None, None, None, None, None, None),
     QuickfixFeed(PriceAnswer(<<CloseEntry(100), CloseEntry(110)>>),
                  IndicatorAnswer("ema", JNumStr(100)), IndicatorAnswer("rsi", JNumStr(56)),
                  IndicatorAnswer("macd", JNumStr(1)), VixAnswer(JNumStr(21)), None),
     QuickfixFeed(PriceAnswer(<<CloseEntry(100), CloseEntry(110)>>),
                  IndicatorAnswer("ema", JNumStr(120)), IndicatorAnswer("rsi", JNumStr(44)),
                  IndicatorAnswer("macd", JNumStr(-1)), None, None),
     QuickfixFeed(PriceAnswer(<<CloseEntry(100), CloseEntry(110)>>),
                  IndicatorAnswer("ema", JNumStr(110)), IndicatorAnswer("rsi", JNumStr(55)),
                  IndicatorAnswer("macd", JNumStr(0)), VixAnswer(JNumStr(20)), None)}

\* bodies of another shape than the API documents, for the request that
\* looks for `key`: the error body, null, empty and non-empty values of
\* every JSON type, a dictionary without the key, a list and a string that
\* hold the key
OddBodies(key) ==
    {Some(JDict(<<<<"status", JText(<<"error">>)>>, <<"code", JNum(429)>>>>)),
     Some(JNull), Some(JBool(FALSE)), Some(JBool(TRUE)), Some(JNum(0)), Some(JNum(5)),
     Some(JHuge), Some(JText(<<>>)), Some(JText(<<"down">>)), Some(JText(<<key>>)),
     Some(JList(<<>>)), Some(JList(<<JNum(1)>>)), Some(JList(<<JText(<<key>>)>>)),
     Some(JDict(<<>>)), Some(JDict(<<<<"code", JNum(429)>>>>))}

\* what a reading can be instead of a numeric string
OddReadings ==
    {JNull, JBool(TRUE), JNum(0), JNum(21), JNum(130), JHuge, JText(<<>>), JText(<<"n/a">>),
     JList(<<JNum(1)>>), JDict(<<<<"value", JNum(1)>>>>)}

\* what can stand under "values" instead of a list of dictionaries
OddValues(key) ==
    {JNull, JNum(0), JNum(5), JBool(TRUE), JHuge, JText(<<>>), JText(<<key>>),
     JList(<<>>), JDict(<<>>), JDict(<<<<key, JNumStr(110)>>>>),
     JList(<<JNum(5)>>), JList(<<JNull>>), JList(<<JText(<<key>>)>>),
     JList(<<JList(<<JText(<<key>>)>>)>>), JList(<<JDict(<<<<"code", JNum(1)>>>>)>>)}

OddPrices ==
    OddBodies("values")
    \cup {Some(JDict(<<<<"values", v>>>>)) : v \in OddValues("close")}
    \cup {PriceAnswer(<<CloseEntry(100), JDict(<<<<"close", x>>>>)>>) : x \in OddReadings}
    \cup {PriceAnswer(<<JDict(<<<<"close", x>>>>), CloseEntry(110)>>) : x \in OddReadings}
    \cup {PriceAnswer(<<JDict(<<<<"open", JNumStr(90)>>>>), CloseEntry(110)>>),
          PriceAnswer(<<CloseEntry(110), JNum(5)>>),
          PriceAnswer(<<CloseEntry(110), JText(<<"close">>)>>)}

OddIndicators(key) ==
    OddBodies("values")
    \cup {Some(JDict(<<<<"values", v>>>>)) : v \in OddValues(key)}
    \cup {IndicatorAnswer(key, x) : x \in OddReadings}
    \cup {Some(JDict(<<<<"values", JList(<<JDict(<<<<key, JNumStr(110)>>>>), JNum(5)>>)>>>>))}

OddVix ==
    OddBodies("close") \cup {VixAnswer(x) : x \in OddReadings}

\* what can stand under "articles" instead of a list of titled articles
OddNews ==
    OddBodies("articles")
    \cup {Some(JDict(<<<<"articles", a>>>>)) :
             a \in {JNull, JNum(0), JNum(3), JBool(TRUE), JHuge, JText(<<>>),
                    JText(<<"none">>), JList(<<>>), JDict(<<>>),
                    JDict(<<<<"title", JText(<<"rise">>)>>>>)}}
    \cup {NewsAnswer(<<a, Article(JText(<<"growth">>))>>) :
             a \in {JNum(5), JNull, JText(<<"title">>), JList(<<>>), JDict(<<>>),
                    Article(JNull), Article(JText(<<>>)), Article(JNum(0)),
                    Article(JNum(5)), Article(JBool(TRUE)),
                    Article(JList(<<JText(<<"rise">>)>>)),
                    Article(JText(<<"Crash", "warning">>)),
                    Article(JText(<<"RISE", "against", "odds">>))}}
    \cup {NewsAnswer([k \in 1..MaxHeadlines |-> Plain] \o <<JNum(5)>>),
          NewsAnswer([k \in 1..MaxHeadlines - 1 |-> Plain] \o <<Article(JNum(5))>>)}

\* a sample with one answer replaced by an odd one
OddFeeds ==
    UNION {{[f EXCEPT !.price = x] : x \in OddPrices}
           \cup {[f EXCEPT !.ema = x] : x \in OddIndicators("ema")}
           \cup {[f EXCEPT !.rsi = x] : x \in OddIndicators("rsi")}
           \cup {[f EXCEPT !.macd = x] : x \in OddIndicators("macd")}
           \cup {[f EXCEPT !.vix = x] : x \in OddVix}
           \cup {[f EXCEPT !.news = x] : x \in OddNews} : f \in QuickfixSamples}

\* one instrument over every answer, the other over the samples
QuickfixUpstreams ==
    [nifty : QuickfixFeeds \cup OddFeeds, banknifty : QuickfixSamples]
    \cup [nifty : QuickfixSamples, banknifty : QuickfixFeeds \cup OddFeeds]

(***************************************************************************)
(* main of engine_nse.py and the main block of engine_quickfix.py          *)
(***************************************************************************)
LiveInit ==
    /\ \/ program = "engine_nse" /\ upstream \in NseUpstreams /\ step = "start"
       \/ program = "engine_quickfix" /\ upstream \in QuickfixUpstreams /\ step = "nifty"
    /\ data = <<>>
    /\ data_json = None
    /\ exit_code = None
    /\ OrbIdle
    /\ RsiIdle
    /\ MainIdle
    /\ BacktestIdle

\* result[symbol] = record
Put(dict, symbol, record) ==
    [s \in DOMAIN dict \cup {symbol} |-> IF s = symbol THEN record ELSE dict[s]]

\* NIFTY first, then BANKNIFTY, then the file
AfterSymbol(symbol) == IF symbol = "nifty" THEN "banknifty" ELSE "save"

\* engine_nse.py main: init_nse_session and the dictionary of its failure
NseStart ==
    /\ program = "engine_nse"
    /\ step = "start"
    /\ IF ~upstream.session
       THEN /\ data' = [s \in Symbols |->
                           [side |-> <<"ERROR", "NSE Connection Failed">>, time |-> Clock]]
            /\ step' = "save"
       ELSE /\ data' = data
            /\ step' = "nifty"
    /\ UNCHANGED <<program, upstream, data_json, exit_code>>
    /\ UNCHANGED not_live_vars

\* engine_nse.py main: result[...] = analyze_symbol(...)
NseAnalyze ==
    /\ program = "engine_nse"
    /\ step \in Symbols
    /\ data' = Put(data, step, analyze_symbol(upstream[step]))
    /\ step' = AfterSymbol(step)
    /\ UNCHANGED <<program, upstream, data_json, exit_code>>
    /\ UNCHANGED not_live_vars

\* engine_nse.py main: json.dump to data.json, sys.exit(0)
NseSave ==
    /\ program = "engine_nse"
    /\ step = "save"
    /\ data_json' = Some(data)
    /\ exit_code' = Some(0)
    /\ step' = "done"
    /\ UNCHANGED <<program, upstream, data>>
    /\ UNCHANGED not_live_vars

\* engine_quickfix.py: one entry of the dictionary literal; what decision
\* raises is caught by `except Exception`, which ends the script with
\* sys.exit(1) before data.json is opened
QuickfixDecide ==
    /\ program = "engine_quickfix"
    /\ step \in Symbols
    /\ \E outcome \in {decision(upstream[step])} :
          IF outcome.raised # None
          THEN /\ data' = data
               /\ step' = "done"
               /\ exit_code' = Some(1)
          ELSE /\ data' = Put(data, step, outcome.value)
               /\ step' = AfterSymbol(step)
               /\ exit_code' = exit_code
    /\ UNCHANGED <<program, upstream, data_json>>
    /\ UNCHANGED not_live_vars

\* "ERROR" not in symbol_result["side"]
HasValidResult(dict) == \E s \in DOMAIN dict : \A k \in 1..Len(dict[s].side) : dict[s].side[k] # "ERROR"

\* engine_quickfix.py: json.dump to data.json, then the exit code
QuickfixSave ==
    /\ program = "engine_quickfix"
    /\ step = "save"
    /\ data_json' = Some(data)
    /\ exit_code' = Some(IF HasValidResult(data) THEN 0 ELSE 1)
    /\ step' = "done"
    /\ UNCHANGED <<program, upstream, data>>
    /\ UNCHANGED not_live_vars

LiveNext == NseStart \/ NseAnalyze \/ NseSave \/ QuickfixDecide \/ QuickfixSave

SpecLive == LiveInit /\ [][LiveNext]_vars

(***************************************************************************)
(* Vocabulary of the properties about the two scripts                      *)
(***************************************************************************)
Finished == step = "done"

\* the record of instrument s, in memory and in the file
RecordOf(s) == data[s]
Written == data_json # None
FileRecords == data_json[1]

\* engine_quickfix.py ended on what decision raised for instrument s
RaisedIn(s) ==
    /\ program = "engine_quickfix"
    /\ Finished
    /\ ~Written
    /\ s = (IF "nifty" \in DOMAIN data THEN "banknifty" ELSE "nifty")

\* analyze_symbol or decision has been called for instrument s
Called(s) == s \in DOMAIN data \/ RaisedIn(s)

IsError(rec) == rec.side # <<>> /\ rec.side[1] = "ERROR"
Qualified(rec) == \E k \in 1..Len(rec.side) : rec.side[k] = "High Volatility"

\* the request gave no value: its function raised or returned None
NoValue(outcome) == outcome.raised # None \/ outcome.value = None

\* required inputs of instrument s that the upstream did not deliver
Unavailable(s) ==
    IF program = "engine_nse"
    THEN (IF ~upstream.session THEN {"session"} ELSE {})
         \cup (IF upstream[s].chain = None THEN {"chain"}
               ELSE IF upstream[s].chain[1].records = None THEN {"records"}
               ELSE IF ~upstream[s].chain[1].records[1].numeric
                       \/ upstream[s].chain[1].records[1].underlyingValue = 0
               THEN {"price"} ELSE {})
    ELSE {n \in {"price", "EMA", "RSI", "MACD"} :
             \/ n = "price" /\ NoValue(get_price(upstream[s].price))
             \/ n = "EMA" /\ NoValue(get_indicator(upstream[s].ema, "ema"))
             \/ n = "RSI" /\ NoValue(get_indicator(upstream[s].rsi, "rsi"))
             \/ n = "MACD" /\ NoValue(get_indicator(upstream[s].macd, "macd"))}

\* every request of the run fails
AllFetchesFail ==
    IF program = "engine_nse"
    THEN /\ ~upstream.session
         /\ \A s \in Symbols : upstream[s].chain = None /\ upstream[s].vix = None
    ELSE \A s \in Symbols :
            upstream[s] = QuickfixFeed(None, None, None, None, None, None)

(***************************************************************************)
(* C12: whatever the requests answer, the run goes on to its end, and the  *)
(* file then holds a record for nifty and for banknifty; an instrument     *)
(* whose required data failed has a side that starts with ERROR.           *)
(***************************************************************************)
C12_BothRecordsWritten ==
    /\ program \in {"engine_nse", "engine_quickfix"} /\ ~Finished => ENABLED LiveNext
    /\ Finished =>
          /\ Written
          /\ exit_code # None
          /\ DOMAIN FileRecords = Symbols
          /\ \A s \in Symbols :
                /\ "side" \in DOMAIN FileRecords[s]
                /\ FileRecords[s].side # <<>>
                /\ Unavailable(s) # {} => IsError(FileRecords[s])

(***************************************************************************)
(* C14: when every request fails, every instrument's record has a side     *)
(* that starts with ERROR and carries an error field, and the file is      *)
(* written.                                                                *)
(***************************************************************************)
C14_AllFailingRun ==
    (Finished /\ AllFetchesFail) =>
        /\ Written
        /\ \A s \in Symbols :
              /\ IsError(FileRecords[s])
              /\ "error" \in DOMAIN FileRecords[s]

(***************************************************************************)
(* C15: every record of an instrument holds at least side, entry, exit,    *)
(* time and price.                                                         *)
(***************************************************************************)
C15_MinimumShape ==
    \A s \in DOMAIN data :
        {"side", "entry", "exit", "time", "price"} \subseteq DOMAIN RecordOf(s)

(***************************************************************************)
(* C16: every call of decision returns a record, whose side is ERROR       *)
(* exactly when price series, EMA, RSI or MACD is unavailable; the ERROR   *)
(* record names the missing inputs and carries neither a direction nor the *)
(* volatility qualifier; an unavailable VIX or news answer alone never     *)
(* gives ERROR.                                                            *)
(***************************************************************************)
NamedMissing(rec) == {rec.side[k] : k \in 3..Len(rec.side)}

C16_ErrorIffRequiredMissing ==
    program = "engine_quickfix" =>
        \A s \in Symbols :
            Called(s) =>
                /\ ~RaisedIn(s)
                /\ IsError(RecordOf(s)) <=> Unavailable(s) # {}
                /\ IsError(RecordOf(s)) =>
                      /\ NamedMissing(RecordOf(s)) = Unavailable(s)
                      /\ Len(RecordOf(s).side) = 2 + Cardinality(Unavailable(s))
                      /\ ~Qualified(RecordOf(s))
                      /\ RecordOf(s).entry = <<>> /\ RecordOf(s).exit = <<>>

(***************************************************************************)
(* C17: in analyze_symbol and decision a VIX reading above 20 only appends *)
(* the high-volatility qualifier to side: direction, entry and exit are    *)
(* what they are without a reading, and no qualifier is there when the     *)
(* reading is at most 20 or unavailable.                                   *)
(***************************************************************************)
\* the record the same answers give when the VIX request fails
WithoutVix(s) ==
    IF program = "engine_nse"
    THEN analyze_symbol([upstream[s] EXCEPT !.vix = None])
    ELSE decision([upstream[s] EXCEPT !.vix = None]).value

\* a reading is there and is above 20
VixAbove20(s) ==
    IF program = "engine_nse"
    THEN upstream[s].vix # None /\ upstream[s].vix[1] > 20
    ELSE ~NoValue(get_vix(upstream[s].vix)) /\ get_vix(upstream[s].vix).value[1] > 20

C17_VixOnlyQualifies ==
    \A s \in Symbols :
        (Called(s) /\ (program = "engine_nse" => upstream.session)) =>
            /\ ~RaisedIn(s)
            /\ LET rec == RecordOf(s)
                   calm == WithoutVix(s)
               IN /\ ~Qualified(calm)
                  /\ rec.side[1] = calm.side[1]
                  /\ rec.entry = calm.entry
                  /\ rec.exit = calm.exit
                  /\ IF VixAbove20(s) /\ ~IsError(rec)
                     THEN /\ Qualified(rec)
                          /\ SubSeq(rec.side, 1, Len(calm.side)) = calm.side
                          /\ Len(rec.side) > Len(calm.side)
                     ELSE rec.side = calm.side

(***************************************************************************)
(* C18: with all required inputs a record is there; its side is AVOID      *)
(* exactly when neither the BUY CALL rule nor the BUY PUT rule fires; the  *)
(* two never fire together; an AVOID record has empty entry and exit, a    *)
(* BUY record has both.                                                    *)
(***************************************************************************)
LastClose(s) ==
    get_price(upstream[s].price).value[1][Len(get_price(upstream[s].price).value[1])]

CallFires(s) ==
    IF program = "engine_nse"
    THEN RecordOf(s).pcr > 120
    ELSE /\ LastClose(s) > get_indicator(upstream[s].ema, "ema").value[1]
         /\ get_indicator(upstream[s].rsi, "rsi").value[1] > 55
         /\ get_indicator(upstream[s].macd, "macd").value[1] > 0
         /\ get_news_sentiment(upstream[s].news).value >= 0

PutFires(s) ==
    IF program = "engine_nse"
    THEN RecordOf(s).pcr < 80
    ELSE /\ LastClose(s) < get_indicator(upstream[s].ema, "ema").value[1]
         /\ get_indicator(upstream[s].rsi, "rsi").value[1] < 45
         /\ get_indicator(upstream[s].macd, "macd").value[1] < 0
         /\ get_news_sentiment(upstream[s].news).value <= 0

C18_AvoidIffNoRule ==
    \A s \in Symbols :
        (Called(s) /\ Unavailable(s) = {}) =>
            /\ ~RaisedIn(s)
            /\ LET rec == RecordOf(s)
               IN /\ ~IsError(rec)
                  /\ ~(CallFires(s) /\ PutFires(s))
                  /\ rec.side[1] = "AVOID" <=> (~CallFires(s) /\ ~PutFires(s))
                  /\ rec.side[1] = "BUY CALL (CE)" <=> CallFires(s)
                  /\ rec.side[1] = "BUY PUT (PE)" <=> PutFires(s)
                  /\ rec.side[1] = "AVOID" => (rec.entry = <<>> /\ rec.exit = <<>>)
                  /\ rec.side[1] # "AVOID" => (rec.entry # <<>> /\ rec.exit # <<>>)

(***************************************************************************)
(* C27: in analyze_symbol the ratio is put over call open interest of the  *)
(* first ten chain entries, 1.0 without call interest; BUY CALL iff the    *)
(* ratio is above 1.2, BUY PUT iff it is below 0.8, AVOID otherwise.       *)
(***************************************************************************)
\* instrument s of engine_nse.py was analysed on a chain with a price
ChainAnalysed(s) ==
    /\ program = "engine_nse"
    /\ s \in DOMAIN data
    /\ upstream.session
    /\ upstream[s].chain # None
    /\ upstream[s].chain[1].records # None
    /\ upstream[s].chain[1].records[1].numeric
    /\ upstream[s].chain[1].records[1].underlyingValue # 0

NearEntries(s) ==
    LET pts == upstream[s].chain[1].records[1].data
    IN {k \in 1..Len(pts) : k <= 10}

RECURSIVE OpenInterest(_, _, _)
OpenInterest(s, kind, ks) ==
    IF ks = {} THEN 0
    ELSE LET k == CHOOSE x \in ks : TRUE
             item == upstream[s].chain[1].records[1].data[k]
         IN (IF kind = "CE" THEN item.CE ELSE item.PE)
            + OpenInterest(s, kind, ks \ {k})

CallOI(s) == OpenInterest(s, "CE", NearEntries(s))
PutOI(s) == OpenInterest(s, "PE", NearEntries(s))

\* the sides follow from the ratio given in hundredths
SidesFollow(s, pcr) ==
    /\ RecordOf(s).side[1] = "BUY CALL (CE)" <=> pcr > 120
    /\ RecordOf(s).side[1] = "BUY PUT (PE)" <=> pcr < 80
    /\ RecordOf(s).side[1] = "AVOID" <=> (80 <= pcr /\ pcr <= 120)

\* C27 as stated: the sides are decided on the quotient itself
C27_ExactRatio ==
    \A s \in {"nifty", "banknifty"} : ChainAnalysed(s) =>
        IF CallOI(s) = 0
        THEN RecordOf(s).pcr = 100 /\ RecordOf(s).side[1] = "AVOID"
        ELSE /\ RecordOf(s).side[1] = "BUY CALL (CE)" <=> 10 * PutOI(s) > 12 * CallOI(s)
             /\ RecordOf(s).side[1] = "BUY PUT (PE)" <=> 10 * PutOI(s) < 8 * CallOI(s)
             /\ RecordOf(s).side[1] = "AVOID" <=>
                    (8 * CallOI(s) <= 10 * PutOI(s) /\ 10 * PutOI(s) <= 12 * CallOI(s))

\* C27, amended: the ratio is the quotient rounded to two decimals, and the
\* sides are decided on the rounded value
C27_RoundedRatio ==
    \A s \in {"nifty", "banknifty"} : ChainAnalysed(s) =>
        /\ IF CallOI(s) = 0
           THEN RecordOf(s).pcr = 100
           ELSE 2 * Abs(RecordOf(s).pcr * CallOI(s) - 100 * PutOI(s)) <= CallOI(s)
        /\ SidesFollow(s, RecordOf(s).pcr)

\* a quotient of 1.204 recorded as 1.20 and answered by AVOID, next to a
\* chain of eleven entries whose first ten give 1.30
C27_Witness ==
    /\ Finished
    /\ ChainAnalysed("nifty")
    /\ 1000 * PutOI("nifty") = 1204 * CallOI("nifty")
    /\ RecordOf("nifty").pcr = 120
    /\ RecordOf("nifty").side[1] = "AVOID"
    /\ ChainAnalysed("banknifty")
    /\ Len(upstream.banknifty.chain[1].records[1].data) = 11
    /\ RecordOf("banknifty").pcr = 130
    /\ RecordOf("banknifty").side[1] = "BUY CALL (CE)"

(***************************************************************************)
(* main of engine.py: analyze_orb for NIFTY and for BANKNIFTY, the two     *)
(* backtests, the output file.  Two runs follow each other; they get the   *)
(* same answers for one instrument and different ones for the other.       *)
(***************************************************************************)
BacktestDays == 20       \* days_back=20

\* backtest_orb_premium_based when no day of the history has ten 5-minute
\* candles (every day is skipped): f.daily is the number of daily bars
backtest_orb_premium_based(f) ==
    IF f.daily = 0
    THEN [error |-> "No historical data available", trades |-> <<>>]
    ELSE [total_trades |-> 0, wins |-> 0, losses |-> 0,
          max_trades_in_single_day |-> 0, max_trades_per_day_limit |-> DefaultCap,
          trades |-> <<>>]

\* nifty_bt, banknifty_bt when the backtests are skipped
Skipped == [error |-> "Skipped - no live data", trades |-> <<>>]

\* `if 'error' not in nifty and 'error' not in banknifty`
LiveDataValid(results) ==
    \A s \in Symbols : "error" \notin DOMAIN results[s]

\* main: the two backtests, or the two skip records
Backtests(results, feed) ==
    IF LiveDataValid(results)
    THEN [s \in Symbols |-> backtest_orb_premium_based(feed[s].history)]
    ELSE [s \in Symbols |-> Skipped]

\* sessions of an instrument: no candle, a feed that starts at 09:20, and
\* full sessions whose tail breaks out of the range 107/97 on either side
BreakoutCloses == {91, 119}
SteadyRise == [k \in 1..(MaxLen - FreeFrom) |-> 119]
MainSessions ==
    {<<>>, Session(<<110, 100>>, Quiet, SteadyRise, MarketOpen + 5, FALSE, MaxLen - 1)}
    \cup {Session(<<107, 97>>, Quiet, tail, MarketOpen, FALSE, MaxLen) :
             tail \in SeqsOf(BreakoutCloses, MaxLen - FreeFrom)}
FewSessions ==
    {<<>>, Session(<<110, 100>>, Quiet, SteadyRise, MarketOpen, FALSE, MaxLen)}

Histories == {[daily |-> 0], [daily |-> BacktestDays]}

MainFeed(session, history) ==
    [hist |-> session, vix |-> [ok |-> TRUE, close |-> 19], history |-> history]

ForSymbols(a, fa, fb) == [s \in Symbols |-> IF s = a THEN fa ELSE fb]

\* the two runs: instrument a gets fa1 in the first and fa2 in the second
\* run, the other instrument gets fb in both
RunPairs ==
    {<<ForSymbols(a, fa1, fb), ForSymbols(a, fa2, fb)>> :
        a \in Symbols,
        fa1 \in {MainFeed(h, d) : h \in MainSessions, d \in Histories},
        fa2 \in {MainFeed(h, [daily |-> BacktestDays]) : h \in FewSessions},
        fb \in {MainFeed(h, d) : h \in FewSessions, d \in Histories}}

MainInit ==
    /\ feeds \in RunPairs
    /\ run = 1
    /\ main_step = "call"
    /\ instrument = "nifty"
    /\ live = <<>>
    /\ backtests = <<>>
    /\ outputs = <<>>
    /\ OrbIdle
    /\ RsiIdle
    /\ LiveIdle
    /\ BacktestIdle

\* main: analyze_orb(..., max_trades_per_day=10, cooldown_candles=2)
MainCall ==
    /\ main_step = "call"
    /\ hist' = feeds[run][instrument].hist
    /\ vix_fetch' = feeds[run][instrument].vix
    /\ max_trades_per_day' = DefaultCap
    /\ cooldown_candles' = DefaultCooldown
    /\ pc' = "start"
    /\ i' = ScanStart
    /\ trades' = <<>>
    /\ cooldown_until' = -1
    /\ orb' = [high |-> 0, low |-> 0, range |-> 0]
    /\ atr_data' = [current |-> None, expanding |-> FALSE]
    /\ vix_data' = get_india_vix([ok |-> FALSE, close |-> 0])
    /\ evaluated' = {}
    /\ result' = NoResult
    /\ main_step' = "analysing"
    /\ UNCHANGED <<feeds, run, instrument, live, backtests, outputs>>
    /\ UNCHANGED <<rsi_vars, live_vars, bt_vars>>

\* main: nifty = ..., banknifty = ... receive what analyze_orb returned
MainReturn ==
    /\ main_step = "analysing"
    /\ pc = "done"
    /\ live' = Put(live, instrument, result)
    /\ pc' = "idle"
    /\ IF instrument = "nifty"
       THEN /\ instrument' = "banknifty"
            /\ main_step' = "call"
       ELSE /\ instrument' = "none"
            /\ main_step' = "backtest"
    /\ UNCHANGED <<hist, vix_fetch, max_trades_per_day, cooldown_candles, i, trades,
                   cooldown_until, orb, atr_data, vix_data, evaluated, result>>
    /\ UNCHANGED <<feeds, run, backtests, outputs>>
    /\ UNCHANGED <<rsi_vars, live_vars, bt_vars>>

\* main: the backtests, run only when both live results are free of 'error'
MainBacktests ==
    /\ main_step = "backtest"
    /\ backtests' = Backtests(live, feeds[run])
    /\ main_step' = "save"
    /\ UNCHANGED <<feeds, run, instrument, live, outputs>>
    /\ UNCHANGED <<orb_vars, rsi_vars, live_vars, bt_vars>>

\* main: json.dump(data); then the second run starts
MainSave ==
    /\ main_step = "save"
    /\ outputs' = Append(outputs, [live_signals |-> live, backtest_results |-> backtests])
    /\ IF run = 1
       THEN /\ run' = 2
            /\ main_step' = "call"
            /\ instrument' = "nifty"
            /\ live' = <<>>
            /\ backtests' = <<>>
       ELSE /\ main_step' = "done"
            /\ UNCHANGED <<run, instrument, live, backtests>>
    /\ UNCHANGED feeds
    /\ UNCHANGED <<orb_vars, rsi_vars, live_vars, bt_vars>>

MainNext ==
    MainCall \/ Prelude \/ ScanStep \/ Summary \/ MainReturn \/ MainBacktests \/ MainSave

SpecMain == MainInit /\ [][MainNext]_vars

(***************************************************************************)
(* C13: two runs that differ only in what one instrument's fetches answer  *)
(* write the same output for the other instrument: its live record and its *)
(* backtest result.                                                        *)
(***************************************************************************)
C13_IsolatedInstruments ==
    main_step = "done" =>
        \A b \in Symbols :
            feeds[1][b] = feeds[2][b] =>
                /\ outputs[1].live_signals[b] = outputs[2].live_signals[b]
                /\ outputs[1].backtest_results[b] = outputs[2].backtest_results[b]

(***************************************************************************)
(* backtest_orb_premium_based (engine.py).  One behaviour is one call: the *)
(* daily fetch, then for every day its 5-minute fetch, the opening range   *)
(* and the scan of the day, then the statistics.  A pnl_pct is kept in     *)
(* hundredths of a percent.  A premium gain 0.6*move/entry - (j+1)/150 is  *)
(* kept as its numerator over 150*entry.  The capital and the equity curve *)
(* are not part of the model.  The operator backtest_orb_premium_based     *)
(* above is the call in which every day is skipped.                        *)
(***************************************************************************)
MinBacktestCandles == 10     \* `if len(intraday) < 10: continue`
MoveWindow == 12             \* range(6, len(intraday) - 12), iloc[i+1:i+13]
StopLossPct == -3500         \* pnl_pct = -35
PartialPct == 4000           \* pnl_pct = 40
TargetCapPct == 12000        \* min(max_profit * 100, 120)
ThetaFloorPct == -5000       \* max(max_profit * 100, -50)

\* intraday.between_time("09:15", "15:30") of a day whose fetch succeeded
Intraday(day) == between_time(day.intraday[1], MarketOpen, MarketClose)

\* orb_high, orb_low, orb_range of a day; None stands for the NaN levels of
\* a day without a candle between 09:15 and 09:45
DayRange(df) ==
    IF Len(OpeningCandles(df)) = 0 THEN None ELSE Some(OpeningRange(df))

\* "CALL", "PUT" or "NONE" for the close of a candle
Breakout(close, o) ==
    IF o = None THEN "NONE" ELSE Detect(close, o[1]).breakout

\* intraday.iloc[i+1:i+13]
Future(df, k) ==
    SubSeq(df, k + 2, IF k + 1 + MoveWindow < Len(df) THEN k + 1 + MoveWindow ELSE Len(df))

HitsStop(fc, breakout, o) ==
    IF breakout = "CALL" THEN fc.Low < o.high ELSE fc.High > o.low

\* numerator of premium_gain over 150 * entry_price; j counts from 0
GainNum(fc, j, breakout, entry_price) ==
    LET spot_move == IF breakout = "CALL" THEN fc.High - entry_price
                     ELSE entry_price - fc.Low
    IN 90 * spot_move - (j + 1) * entry_price

\* moved - theta_loss when it is above zero, and zero otherwise
FloatNet(x, y) ==
    CHOOSE v \in {IF FLess(theta_loss, moved) THEN FSub(moved, theta_loss) ELSE FZero :
                  moved \in {x}, theta_loss \in {y}} : TRUE

\* premium_gain as the float of the code when it is above zero, and zero
\* otherwise: max_profit starts at 0, so a gain that is not above zero
\* leaves it alone
FloatGain(fc, j, breakout, entry_price) ==
    LET spot_move == IF breakout = "CALL" THEN fc.High - entry_price
                     ELSE entry_price - fc.Low
        time_elapsed == (j + 1) * 5
    IN IF spot_move <= 0 THEN FZero
       ELSE FloatNet(FMul(FDiv(FInt(spot_move), FInt(entry_price)), FDiv(FInt(6), FInt(10))),
                     FMul(FDiv(FInt(time_elapsed), FInt(15)), FDiv(FInt(2), FInt(100))))

\* the largest float of a set
FMax(x) == CHOOSE v \in {CHOOSE g \in S : \A h \in S : ~FLess(g, h) : S \in {x}} : TRUE

\* max_profit after the loop, as the float of the code
FloatMaxProfit(future, breakout, entry_price) ==
    FMax({FZero} \cup {FloatGain(future[j], j - 1, breakout, entry_price) :
                          j \in 1..Len(future)})

\* round(float(min(pct, 120)), 2) in hundredths
FloatCapped(x) ==
    CHOOSE v \in {IF FLess(pct, FInt(120)) THEN FRound2(pct) ELSE TargetCapPct :
                  pct \in {x}} : TRUE

\* outcome and pnl_pct from the float max_profit of a trade that did not
\* hit its stop
FloatOutcome(x) ==
    CHOOSE v \in {IF ~FLess(max_profit, FDiv(FInt(8), FInt(10)))
                  THEN [outcome |-> "TARGET_HIT",
                        pnl_pct |-> FloatCapped(FMul(max_profit, FInt(100)))]
                  ELSE IF ~FLess(max_profit, FDiv(FInt(4), FInt(10)))
                  THEN [outcome |-> "PARTIAL_PROFIT", pnl_pct |-> PartialPct]
                  ELSE [outcome |-> "THETA_DECAY",
                        pnl_pct |-> Max2(FRound2(FMul(max_profit, FInt(100))), ThetaFloorPct)] :
                  max_profit \in {x}} : TRUE

\* the exact max_profit, num / den, equals 0.8 or 0.4, or 100 times it
\* lies halfway between two hundredths
OnThreshold(num, den) ==
    \/ 10 * num = 8 * den
    \/ 10 * num = 4 * den
    \/ HalfwayHundredths(100 * num, den)

\* outcome and pnl_pct of a trade entered at entry_price.  The floats of
\* the code are within 1e-12 of the exact gains, so the exact max_profit
\* decides the outcome and the rounding unless it lies on a threshold.
Simulate(future, breakout, o, entry_price) ==
    LET den == 150 * entry_price
        hit_stop == \E j \in 1..Len(future) : HitsStop(future[j], breakout, o)
        max_profit == SetMax({0} \cup {GainNum(future[j], j - 1, breakout, entry_price) :
                                          j \in 1..Len(future)})
        pct == NearestHundredth(100 * max_profit, den)
    IN IF hit_stop
       THEN [outcome |-> "STOP_HIT", pnl_pct |-> StopLossPct]
       ELSE IF OnThreshold(max_profit, den)
       THEN FloatOutcome(FloatMaxProfit(future, breakout, entry_price))
       ELSE IF 10 * max_profit >= 8 * den
       THEN [outcome |-> "TARGET_HIT",
             pnl_pct |-> IF pct < TargetCapPct THEN pct ELSE TargetCapPct]
       ELSE IF 10 * max_profit >= 4 * den
       THEN [outcome |-> "PARTIAL_PROFIT", pnl_pct |-> PartialPct]
       ELSE [outcome |-> "THETA_DECAY", pnl_pct |-> Max2(pct, ThetaFloorPct)]

\* the record appended to all_trades
BacktestTrade(date, df, k, breakout, o, n) ==
    LET entry_price == At(df, k - 1).Close
        sim == Simulate(Future(df, k), breakout, o, entry_price)
    IN [date |-> date,
        trade_number |-> n + 1,
        type |-> breakout,
        entry |-> entry_price,
        outcome |-> sim.outcome,
        pnl_pct |-> sim.pnl_pct]

\* mutant: the count and the cooldown of the day before are carried over
StartOfDay_NoReset == [day_trades |-> day_trades, cooldown_until |-> bt_cooldown_until]
\* `day_trades = 0`, `cooldown_until = -1`
StartOfDay == [day_trades |-> 0, cooldown_until |-> -1]

\* trades_by_day.values()
TradesByDay(list) ==
    {Cardinality({a \in 1..Len(list) : list[a].date = d}) :
        d \in {list[a].date : a \in 1..Len(list)}}

\* the dictionary returned after the last day
Statistics(list, cap) ==
    [total_trades |-> Len(list),
     wins |-> Cardinality({a \in 1..Len(list) : list[a].pnl_pct > 0}),
     losses |-> Cardinality({a \in 1..Len(list) : list[a].pnl_pct <= 0}),
     max_trades_in_single_day |-> IF list = <<>> THEN 0 ELSE SetMax(TradesByDay(list)),
     max_trades_per_day_limit |-> cap,
     trades |-> list]

(***************************************************************************)
(* What the history fetches answer                                         *)
(***************************************************************************)
MaxDays == 2
DayCandles == 23

\* closes of the candles the scan may trade on, after the 09:45 candle
FreeCandles == DayCandles - MoveWindow - ScanStart - 1
\* closes of the last MoveWindow candles of a day
CalmAfter == {105, 119, 91}
WildAfter == {200, 300}

\* a day from 09:15 on under the range 110/100: `tail` are the closes after
\* 09:45, then every candle closes at `after`
DayFrame(tail, after, first, n) ==
    [k \in 1..n |->
        Candle(first + 5 * (k - 1),
               IF k = 4 THEN Shape(110, 100, 105)
               ELSE IF k <= ScanStart + 1 THEN Quiet
               ELSE IF k <= ScanStart + 1 + Len(tail) THEN Sane(tail[k - ScanStart - 1])
               ELSE Sane(after))]

AllUp == [k \in 1..FreeCandles |-> 119]
UpAndDown == [k \in 1..FreeCandles |-> IF k % 2 = 1 THEN 119 ELSE 91]

FullDays ==
    {DayFrame(tail, after, MarketOpen, DayCandles) :
        tail \in SeqsOf(TailCloses, FreeCandles), after \in CalmAfter}
    \cup {DayFrame(tail, after, MarketOpen, DayCandles) :
             tail \in {AllUp, UpAndDown}, after \in WildAfter}

\* a day under the range b+1/b-1 with one breakout, entered at b: the
\* third of the candles that follow reaches `spike`, the others move by 2
SpikeDay(b, up, spike) ==
    [k \in 1..DayCandles |->
        Candle(MarketOpen + 5 * (k - 1),
               IF k <= ScanStart + 1 THEN Sane(b)
               ELSE IF k = ScanStart + 2 THEN Sane(IF up THEN b + 10 ELSE b - 10)
               ELSE IF up
               THEN Shape(IF k = ScanStart + 5 THEN spike ELSE b + 2, b + 1, b + 1)
               ELSE Shape(b - 1, IF k = ScanStart + 5 THEN spike ELSE b - 2, b - 1))]

\* days whose exact max_profit is 0.4, is 0.8, or gives a pnl_pct halfway
\* between two hundredths (3.625, 29.875, 13.625), and a day off every
\* threshold
SpikeDays ==
    {SpikeDay(60, TRUE, 102), SpikeDay(60, TRUE, 142), SpikeDay(64, TRUE, 70),
     SpikeDay(64, FALSE, 58), SpikeDay(64, TRUE, 98), SpikeDay(96, TRUE, 121),
     SpikeDay(60, TRUE, 110)}

\* the 5-minute fetch of a day: it raises, brings nine candles, brings a
\* feed that starts at 09:50, or one of two busy days
DayKinds ==
    {None,
     Some(DayFrame(AllUp, 119, MarketOpen, MinBacktestCandles - 1)),
     Some(DayFrame(AllUp, 119, OpeningEnd + 5, DayCandles)),
     Some(DayFrame(AllUp, 119, MarketOpen, DayCandles)),
     Some(DayFrame(UpAndDown, 105, MarketOpen - 10, DayCandles + 2))}

\* the days of a history, dated 1, 2, ... in the order of the daily frame
Dated(fetches) == [k \in 1..Len(fetches) |-> [date |-> k, intraday |-> fetches[k]]]

Histories1 == {Dated(<<Some(df)>>) : df \in FullDays \cup SpikeDays}
HistoriesN == UNION {{Dated(fs) : fs \in SeqsOf(DayKinds, n)} : n \in 2..MaxDays}

\* the daily fetch raises, brings no row, or brings the days
DailyFetches ==
    {[ok |-> FALSE, days |-> <<>>], [ok |-> TRUE, days |-> <<>>]}
    \cup {[ok |-> TRUE, days |-> h] : h \in Histories1 \cup HistoriesN}

BacktestConfigs ==
    {[cooldown |-> c, cap |-> m] : c \in 0..MaxCooldown, m \in 1..MaxCap}
    \cup {[cooldown |-> DefaultCooldown, cap |-> DefaultCap]}

BacktestInit ==
    /\ \E f \in DailyFetches, c \in BacktestConfigs :
          /\ daily = f
          /\ bt_max_trades_per_day = c.cap
          /\ bt_cooldown_candles = c.cooldown
    /\ bt_pc = "start"
    /\ day_idx = 0
    /\ bt_i = ScanStart
    /\ day_trades = 0
    /\ bt_cooldown_until = -1
    /\ all_trades = <<>>
    /\ triggers = <<>>
    /\ bt_result = None
    /\ OrbIdle
    /\ RsiIdle
    /\ LiveIdle
    /\ MainIdle

\* the daily fetch and the test for an empty history
BacktestStart ==
    /\ bt_pc = "start"
    /\ IF ~daily.ok
       THEN /\ bt_result' = Some([error |-> "history fetch failed", trades |-> <<>>])
            /\ bt_pc' = "done"
       ELSE IF Len(daily.days) = 0
       THEN /\ bt_result' = Some([error |-> "No historical data available", trades |-> <<>>])
            /\ bt_pc' = "done"
       ELSE /\ bt_pc' = "day"
            /\ UNCHANGED bt_result
    /\ UNCHANGED <<daily, bt_max_trades_per_day, bt_cooldown_candles, day_idx, bt_i,
                   day_trades, bt_cooldown_until, all_trades, triggers>>
    /\ UNCHANGED not_bt_vars

\* one iteration of `for day_idx in range(len(daily))` up to the scan
BacktestDay ==
    /\ bt_pc = "day"
    /\ day_idx < Len(daily.days)
    /\ LET day == daily.days[day_idx + 1]
       IN IF day.intraday = None \/ Len(Intraday(day)) < MinBacktestCandles
          THEN /\ day_idx' = day_idx + 1
               /\ UNCHANGED <<bt_pc, bt_i, day_trades, bt_cooldown_until>>
          ELSE /\ day_trades' = StartOfDay.day_trades
               /\ bt_cooldown_until' = StartOfDay.cooldown_until
               /\ bt_i' = ScanStart
               /\ bt_pc' = "scan"
               /\ UNCHANGED day_idx
    /\ UNCHANGED <<daily, bt_max_trades_per_day, bt_cooldown_candles, all_trades,
                   triggers, bt_result>>
    /\ UNCHANGED not_bt_vars

\* one iteration of `for i in range(6, len(intraday) - 12)`
BacktestScan ==
    /\ bt_pc = "scan"
    /\ LET day == daily.days[day_idx + 1]
           df == Intraday(day)
           o == DayRange(df)
       IN /\ bt_i < Len(df) - MoveWindow
          /\ IF bt_i <= bt_cooldown_until
             THEN /\ bt_i' = bt_i + 1
                  /\ UNCHANGED <<bt_pc, day_trades, bt_cooldown_until, all_trades, triggers>>
             ELSE IF day_trades >= bt_max_trades_per_day
             THEN /\ bt_pc' = "break"
                  /\ UNCHANGED <<bt_i, day_trades, bt_cooldown_until, all_trades, triggers>>
             ELSE LET breakout == Breakout(At(df, bt_i).Close, o)
                  IN IF breakout = "NONE" \/ Len(Future(df, bt_i)) = 0
                     THEN /\ bt_i' = bt_i + 1
                          /\ UNCHANGED <<bt_pc, day_trades, bt_cooldown_until,
                                         all_trades, triggers>>
                     ELSE /\ all_trades' = Append(all_trades,
                                  BacktestTrade(day.date, df, bt_i, breakout, o[1], day_trades))
                          /\ triggers' = Append(triggers, <<day_idx, bt_i>>)
                          /\ day_trades' = day_trades + 1
                          /\ bt_cooldown_until' = bt_i + bt_cooldown_candles
                          /\ bt_i' = bt_i + 1
                          /\ UNCHANGED bt_pc
    /\ UNCHANGED <<daily, bt_max_trades_per_day, bt_cooldown_candles, day_idx, bt_result>>
    /\ UNCHANGED not_bt_vars

\* the scan of the day is over, by exhaustion or by `break`
BacktestDayEnd ==
    /\ \/ bt_pc = "break"
       \/ bt_pc = "scan" /\ bt_i >= Len(Intraday(daily.days[day_idx + 1])) - MoveWindow
    /\ day_idx' = day_idx + 1
    /\ bt_pc' = "day"
    /\ UNCHANGED <<daily, bt_max_trades_per_day, bt_cooldown_candles, bt_i, day_trades,
                   bt_cooldown_until, all_trades, triggers, bt_result>>
    /\ UNCHANGED not_bt_vars

\* the statistics after the last day
BacktestStats ==
    /\ bt_pc = "day"
    /\ day_idx >= Len(daily.days)
    /\ bt_result' = Some(Statistics(all_trades, bt_max_trades_per_day))
    /\ bt_pc' = "done"
    /\ UNCHANGED <<daily, bt_max_trades_per_day, bt_cooldown_candles, day_idx, bt_i,
                   day_trades, bt_cooldown_until, all_trades, triggers>>
    /\ UNCHANGED not_bt_vars

BacktestNext ==
    BacktestStart \/ BacktestDay \/ BacktestScan \/ BacktestDayEnd \/ BacktestStats

SpecBacktest == BacktestInit /\ [][BacktestNext]_vars

\* positions in `triggers` of the trades of day d (0-based index of the day)
TriggersOf(d) == {a \in 1..Len(triggers) : triggers[a][1] = d}

\* positions in a list of the trades dated as day d of the history
DatedAs(list, d) == {a \in 1..Len(list) : list[a].date = daily.days[d + 1].date}

(***************************************************************************)
(* C26: on every day at most max_trades_per_day trades are recorded and    *)
(* any two trades of a day are triggered more than cooldown_candles        *)
(* samples apart; the count and the cooldown start afresh with every day;  *)
(* the reported max_trades_in_single_day is at most the reported limit and *)
(* wins + losses = total_trades.                                           *)
(***************************************************************************)
C26_DailyCapAndCooldown ==
    /\ Len(triggers) = Len(all_trades)
    /\ \A d \in 0..(Len(daily.days) - 1) :
          /\ Cardinality(DatedAs(all_trades, d)) <= bt_max_trades_per_day
          /\ DatedAs(all_trades, d) = TriggersOf(d)
          /\ \A a, b \in TriggersOf(d) :
                a # b => Abs(triggers[a][2] - triggers[b][2]) > bt_cooldown_candles
    /\ bt_pc = "scan" =>
          /\ day_trades = Cardinality(TriggersOf(day_idx))
          /\ bt_cooldown_until =
                IF TriggersOf(day_idx) = {} THEN -1
                ELSE SetMax({triggers[a][2] : a \in TriggersOf(day_idx)}) + bt_cooldown_candles
    /\ (bt_pc = "done" /\ "error" \notin DOMAIN bt_result[1]) =>
          LET r == bt_result[1]
          IN /\ r.max_trades_in_single_day <= r.max_trades_per_day_limit
             /\ r.max_trades_per_day_limit = bt_max_trades_per_day
             /\ r.wins + r.losses = r.total_trades
             /\ r.total_trades = Len(r.trades)
             /\ r.trades = all_trades

\* two days that both reach a cap of two, under a cooldown of one sample:
\* the second day trades again from number 1 on
C26_Witness ==
    /\ bt_pc = "done"
    /\ bt_max_trades_per_day = 2
    /\ bt_cooldown_candles = 1
    /\ Len(daily.days) = 2
    /\ bt_result[1].total_trades = 4
    /\ bt_result[1].max_trades_in_single_day = 2
    /\ bt_result[1].trades[3].trade_number = 1
    /\ bt_result[1].wins > 0
    /\ bt_result[1].losses > 0
====
